---------------------------- MODULE Spec2Model ----------------------------
(***************************************************************************)
(* Model of the swarm coordination engine of scripts/ai_swarm.py: the      *)
(* lease-based work queue (coord_* tool handlers), the versioned context   *)
(* store (ctx_* handlers), the sliding-window rate limiter and the path    *)
(* confinement of ToolExecutor, and the per-agent circuit breaker of the   *)
(* round loop of main().                                                   *)
(*                                                                         *)
(* main() is single-threaded: a tool handler runs to completion for the    *)
(* agent `a` whose output is being dispatched, and reads the clock         *)
(* (time.time()) when it runs.  Every handler is therefore one action,     *)
(* parameterised by the calling agent and by the arguments the agent put   *)
(* in its call; the clock is the variable `now`, advanced by Tick.         *)
(* A handler action stands for a call that reached its branch of the       *)
(* dispatch loop.  Which calls validate_tool_calls lets through, the       *)
(* collection of fs_write proposals and their resolution by the arbiter    *)
(* are modelled in the rounds of SpecRound.                                *)
(*                                                                         *)
(* Each component has its own next-state relation over the same variables  *)
(* (SpecQueue, SpecCtx, SpecRate, SpecSandbox, SpecBreaker, SpecRound),    *)
(* and further relations follow one part of the state each: SpecDispatch,  *)
(* SpecGate and SpecScan (sandbox calls), SpecCache (tool_cache),          *)
(* SpecPrompt (transcript and prompt history), SpecStore (the queue as a   *)
(* value of the context store) and SpecWrites (telemetry["writes"]).       *)
(* tool_cache, transcript and telemetry change only in the actions of the  *)
(* relation that follows them.                                             *)
(* The in-memory jobs service of src/coordination/api.py is SpecJobs.      *)
(* The variables marked "history" record what happened and are read by no  *)
(* handler.                                                                *)
(***************************************************************************)
EXTENDS Integers, Sequences, FiniteSets, TLC

VARIABLES
    now,               \* time.time(), in whole seconds
    queue,             \* the list stored under context_store["coord:queue"]
    issued,            \* number of ids handed out by coord_enqueue (uuid4 tokens)
    context_store,     \* ctx key -> value (a function on the keys present)
    context_versions,  \* ctx key -> version (context_versions.get(k, 0))
    round,             \* r of the round loop
    rl_events,         \* ToolExecutor._rl_events: "tool:actor" -> timestamps
    accepted,          \* history: per rate key, the timestamps of admitted checks
    allow_write,       \* ToolExecutor.allow_write
    telemetry,         \* telemetry["writes"]: the counters proposed and applied
    jobs,              \* coordination/api.py: jobs._store, in order of submission
    tool_cache,        \* main(): cache key -> the result stored under it
    served,            \* history: the transcript entry of the last read-only tool call
    transcript,        \* main(): the transcript, each entry by the length of its prompt line
    history,           \* round_prompt: the entries (by position) put in the last prompt
    files,             \* filesystem: absolute path -> content
    dirs,              \* filesystem: the directories that exist
    ioLog,             \* history: the last sandbox call, its outcome, the paths it touched
    agent_state,       \* agent -> [fail, open_until]
    round_outputs,     \* agent -> what the round recorded for it ("": nothing yet)
    turn,              \* index in `agents` of the agent whose turn it is
    pc,                \* position in the round loop: "check" | "calling" | "arbiter" |
                       \* "review" | "next" | "end" | "aborted"
    openedAt,          \* history: agent -> <<t>>, t the time of its last failure that
                       \* was at least the CbThreshold-th in a row (<<>>: none)
    consec,            \* history: agent -> failures since its last success
    pending_writes,    \* the fs_write proposals collected in the round
    final_consensus,   \* the last consensus text, with the round it was given in
    approved           \* history: the paths the arbiter's write decisions of this round
                       \* approve

vars == <<now, queue, issued, context_store, context_versions, round, rl_events,
          accepted, allow_write, telemetry, jobs, tool_cache, served,
          transcript, history, files, dirs, ioLog, agent_state, round_outputs,
          turn, pc, openedAt, consec, pending_writes, final_consensus, approved>>

(***************************************************************************)
(* Bounds of the model.                                                    *)
(***************************************************************************)
MaxTime == 2        \* the clock runs from 1 to MaxTime
MaxEnq == 1         \* coord_enqueue calls in a run
MaxVersion == 3     \* ctx_put stops being issued at this version
MaxRounds == 4      \* args.rounds
MaxRateTime == 4    \* the clock runs from 1 to MaxRateTime where the rate limiter is checked
MaxBreakerTime == 4 \* the clock runs from 1 to MaxBreakerTime in the round loop
MaxPending == 2     \* fs_write proposals collected in a round
MaxDecisions == 2   \* decisions in the arbiter's answer
MaxCalls == 2       \* tool calls in one agent output, where whole outputs are validated
MaxJobs == 3        \* jobs submitted to the jobs service
MaxTranscript == 4  \* entries of the transcript where prompts are built

None == "None"      \* Python's None in a string-valued place
NoId == 0           \* a seeded item has no "id" key: itm.get("id") is None
NoLease == <<>>     \* lease_until is None (or the key is missing)

agents == <<"Grok", "Gemini">>
Agents == {agents[i] : i \in 1..Len(agents)}


(***************************************************************************)
(* Tool results.  A handler appends one transcript entry, "Tool(agent)"    *)
(* with its JSON result or "ToolError(agent)" when it raised; the entry is *)
(* read by no handler, so the model keeps no transcript: the entry a call  *)
(* produces in a state is given by the handler's *_result operator.        *)
(*   who   "Tool" | "ToolError"                                            *)
(*   idx   position in the queue of the item the result hands out (0: none)*)
(***************************************************************************)
Result(err, code, id, idx) ==
    [who |-> "Tool", err |-> err, code |-> code, id |-> id, idx |-> idx]

\* except Exception as e: err_obj = {"error": str(e), "code": 500, "tool": name}
ToolError(msg) ==
    [who |-> "ToolError", err |-> msg, code |-> 500, id |-> NoId, idx |-> 0]

(***************************************************************************)
(* Values of the context store.  JSON values of different Python types are *)
(* never equal, so each type has its own record shape.                     *)
(***************************************************************************)
IntVal(n) == [int |-> n]
StrVal(s) == [str |-> s]
QueueVal == [list |-> "coord:queue"]   \* the list object held in `queue`

(***************************************************************************)
(* Work queue: main(), the coord_* branches of the dispatch loop.          *)
(***************************************************************************)
SeedItem(kind) ==
    [id |-> NoId, kind |-> kind, status |-> None, lease_until |-> NoLease,
     claimed_by |-> None, result |-> None]

\* the three items main() puts in the queue at the start of round 1: they carry
\* only "kind" and "payload"
SeedQueue == <<SeedItem("list_code_files"), SeedItem("scan_docs"), SeedItem("review_tools")>>

\* exp = itm.get("lease_until") or 0
Exp(itm) == IF itm.lease_until = NoLease THEN 0 ELSE itm.lease_until[1]

\* the selection test of coord_next
Eligible(itm, t) == itm.status \in {None, "queued"} \/ t > Exp(itm)

\* for itm in q: if eligible: chosen = itm; break     (0: chosen is None)
FirstEligible(q, t) ==
    IF \E i \in 1..Len(q) : Eligible(q[i], t)
    THEN CHOOSE i \in 1..Len(q) :
             Eligible(q[i], t) /\ \A j \in 1..(i - 1) : ~Eligible(q[j], t)
    ELSE 0

\* next((itm for itm in q if itm.get("id") == tid), None)    (0: not found)
Find(q, tid) ==
    IF \E i \in 1..Len(q) : q[i].id = tid
    THEN CHOOSE i \in 1..Len(q) : q[i].id = tid /\ \A j \in 1..(i - 1) : q[j].id # tid
    ELSE 0

\* InUse with the lease taken to end one instant early
InUse_strict(itm, a, t) ==
    itm.status = "claimed" /\ t < Exp(itm) /\ itm.claimed_by \notin {None, a}

\* the conflict test of coord_claim
InUse(itm, a, t) ==
    itm.status = "claimed" /\ t <= Exp(itm) /\ itm.claimed_by \notin {None, a}

\* a claim that leaves the lease of an item its claimant already holds
Claimed_keep_lease(itm, a, t, lease_sec) ==
    IF itm.status = "claimed" /\ itm.claimed_by = a /\ t <= Exp(itm)
    THEN itm
    ELSE [itm EXCEPT !.status = "claimed", !.lease_until = <<t + lease_sec>>, !.claimed_by = a]

\* the three assignments of a successful coord_next / coord_claim
Claimed(itm, a, t, lease_sec) ==
    [itm EXCEPT !.status = "claimed", !.lease_until = <<t + lease_sec>>, !.claimed_by = a]

\* the three assignments of coord_complete
Completed(itm, res) ==
    [itm EXCEPT !.status = "done", !.lease_until = NoLease, !.result = res]

NewItem(tid, kind) ==
    [id |-> tid, kind |-> kind, status |-> "queued", lease_until |-> NoLease,
     claimed_by |-> None, result |-> None]

\* coord_enqueue: the queue after the call, and the entry it appends
coord_enqueue_queue(q, kind, tid) == IF kind = "" THEN q ELSE Append(q, NewItem(tid, kind))

coord_enqueue_result(q, kind, tid) ==
    IF kind = "" THEN ToolError("missing kind")      \* raise ValueError("missing kind")
    ELSE Result("", 0, tid, 0)

\* coord_next
coord_next_queue(q, a, lease_sec, t) ==
    LET i == FirstEligible(q, t) IN
    IF i = 0 THEN q ELSE [q EXCEPT ![i] = Claimed(@, a, t, lease_sec)]

coord_next_result(q, a, lease_sec, t) ==
    LET i == FirstEligible(q, t) IN
    IF i = 0 THEN Result("", 0, NoId, 0)             \* {"item": null}
    ELSE IF q[i].id = NoId
    THEN ToolError("KeyError")   \* chosen["id"] raises after the item was changed
    ELSE Result("", 0, q[i].id, i)

\* coord_claim
coord_claim_queue(q, a, tid, lease_sec, t) ==
    LET i == Find(q, tid) IN
    IF i = 0 THEN q
    ELSE IF InUse(q[i], a, t) THEN q
    ELSE [q EXCEPT ![i] = Claimed(@, a, t, lease_sec)]

coord_claim_result(q, a, tid, lease_sec, t) ==
    LET i == Find(q, tid) IN
    IF i = 0 THEN Result("not_found", 404, NoId, 0)
    ELSE IF InUse(q[i], a, t) THEN Result("in_use", 423, NoId, 0)
    ELSE Result("", 0, tid, i)

\* coord_complete
coord_complete_queue(q, tid, res) ==
    LET i == Find(q, tid) IN
    IF i = 0 THEN q ELSE [q EXCEPT ![i] = Completed(@, res)]

coord_complete_result(q, tid, res) ==
    IF Find(q, tid) = 0 THEN Result("not_found", 404, NoId, 0) ELSE Result("", 0, tid, 0)

\* coord_extend without the test of the claimant
coord_extend_error_anyone(q, a, tid, t) ==
    LET i == Find(q, tid) IN
    IF i = 0 THEN "not_found"
    ELSE IF t > Exp(q[i]) THEN "expired"
    ELSE ""

\* coord_extend: "" when the lease is extended, else the error of the result
coord_extend_error(q, a, tid, t) ==
    LET i == Find(q, tid) IN
    IF i = 0 THEN "not_found"
    ELSE IF q[i].claimed_by \notin {None, a} THEN "not_owner"
    ELSE IF t > Exp(q[i]) THEN "expired"
    ELSE ""

coord_extend_queue(q, a, tid, extra_sec, t) ==
    IF coord_extend_error(q, a, tid, t) # "" THEN q
    ELSE LET i == Find(q, tid) IN [q EXCEPT ![i].lease_until = <<Exp(q[i]) + extra_sec>>]

coord_extend_result(q, a, tid, extra_sec, t) ==
    LET e == coord_extend_error(q, a, tid, t) IN
    IF e = "not_found" THEN Result(e, 404, NoId, 0)
    ELSE IF e = "not_owner" THEN Result(e, 403, NoId, 0)
    ELSE IF e = "expired" THEN Result(e, 409, NoId, 0)
    ELSE Result("", 0, tid, 0)

\* coord_status: st = str(itm.get("status") or "queued"), counted per status
StatusOf(itm) == IF itm.status = None THEN "queued" ELSE itm.status

coord_status_result(q, store) ==
    [length |-> Len(q),
     front |-> IF q = <<>> THEN None ELSE [id |-> q[1].id, kind |-> q[1].kind,
                                           status |-> q[1].status],
     phase |-> IF "phase" \in DOMAIN store THEN store["phase"] ELSE [null |-> TRUE],
     counts |-> [s \in {StatusOf(q[i]) : i \in 1..Len(q)} |->
                    Cardinality({i \in 1..Len(q) : StatusOf(q[i]) = s})]]

\* the transcript entries of a coord_status call: the status, then what the
\* statements after it make of `res` (None: no sandbox tool has bound it yet in
\* this run, the read raises and the handler records a ToolError)
coord_status_entries(q, store, res) ==
    <<[who |-> "Tool", content |-> coord_status_result(q, store)],
      IF res = None
      THEN [who |-> "ToolError", content |-> ToolError("UnboundLocalError")]
      ELSE [who |-> "Tool", content |-> res]>>

Kinds == {"", "job"}            \* str(args_map.get("kind", "")).strip()
LeaseSecs == {0, 1}             \* lease_sec, extend_sec
Tids == 1..(MaxEnq + 1)         \* the ids handed out, and one never handed out
Results == {"r1"}
LeaseHorizon == MaxTime + 1     \* coord_extend is not issued beyond this expiry

queueVars == <<queue, issued>>
ctxVars == <<context_store, context_versions>>
rateVars == <<rl_events, accepted>>
cacheVars == <<tool_cache, served>>
promptVars == <<transcript, history>>
sideVars == <<allow_write, telemetry, jobs, cacheVars, promptVars>>
fsVars == <<sideVars, files, dirs, ioLog>>
breakerVars == <<agent_state, round_outputs, turn, pc, openedAt, consec>>
writeVars == <<pending_writes, final_consensus, approved>>

\* the clock moves on, up to `limit`
Tick(limit) ==
    /\ now < limit
    /\ now' = now + 1
    /\ UNCHANGED <<queueVars, ctxVars, round, rateVars, fsVars, breakerVars, writeVars>>

coord_enqueue(a, kind) ==
    /\ kind # "" => issued < MaxEnq
    /\ queue' = coord_enqueue_queue(queue, kind, issued + 1)
    /\ issued' = IF kind = "" THEN issued ELSE issued + 1
    /\ UNCHANGED <<now, ctxVars, round, rateVars, fsVars, breakerVars, writeVars>>

coord_next(a, lease_sec) ==
    /\ queue' = coord_next_queue(queue, a, lease_sec, now)
    /\ UNCHANGED <<now, issued, ctxVars, round, rateVars, fsVars, breakerVars, writeVars>>

coord_claim(a, tid, lease_sec) ==
    /\ queue' = coord_claim_queue(queue, a, tid, lease_sec, now)
    /\ UNCHANGED <<now, issued, ctxVars, round, rateVars, fsVars, breakerVars, writeVars>>

coord_complete(a, tid, res) ==
    /\ queue' = coord_complete_queue(queue, tid, res)
    /\ UNCHANGED <<now, issued, ctxVars, round, rateVars, fsVars, breakerVars, writeVars>>

coord_extend(a, tid, extra_sec) ==
    /\ coord_extend_error(queue, a, tid, now) = ""
         => Exp(queue[Find(queue, tid)]) + extra_sec <= LeaseHorizon
    /\ queue' = coord_extend_queue(queue, a, tid, extra_sec, now)
    /\ UNCHANGED <<now, issued, ctxVars, round, rateVars, fsVars, breakerVars, writeVars>>

\* coord_status appends the status entry; the four statements after it (copied
\* from health_check) then read `res`, which is bound only when a sandbox tool
\* ran earlier in the run: a second entry follows, or a ToolError.  No state
\* changes.
coord_status(a) ==
    /\ coord_status_result(queue, context_store).length = Len(queue)
    /\ UNCHANGED vars

(***************************************************************************)
(* Context store: main(), the ctx_* branches of the dispatch loop.         *)
(***************************************************************************)
Keys == {"phase", "coord:queue", "plan"}     \* k = str(args_map.get("key", ""))
Values == {StrVal("v1"), StrVal("v2")}       \* v = args_map.get("value")
Modes == {"set", "if_absent", "if_version", "merge"}

\* expect = args_map.get("expected_version"): a JSON integer, a JSON real, true or
\* false, or nothing.  t is the Python type, n the number it compares equal to.
IntExpect(n) == [t |-> "int", n |-> n]
Expects ==
    {IntExpect(n) : n \in 0..(MaxVersion + 2)}
        \cup {[t |-> "float", n |-> n] : n \in 0..1}
        \cup {[t |-> "bool", n |-> 1], [t |-> "NoneType", n |-> 0]}

\* isinstance(expect, int): bool is a subclass of int
IsInstanceInt(expect) == expect.t \in {"int", "bool"}

\* cur_ver = context_versions.get(k, 0)
CurVer(versions, k) == versions[k]

\* if_version: apply when expect is not behind the current version
ctx_put_applies_atleast(store, versions, k, mode, expect) ==
    CASE mode = "set" -> TRUE
      [] mode = "if_absent" -> k \notin DOMAIN store
      [] mode = "if_version" -> IsInstanceInt(expect) /\ expect.n >= CurVer(versions, k)
      [] OTHER -> FALSE

\* the value of `apply`
ctx_put_applies(store, versions, k, mode, expect) ==
    CASE mode = "set" -> TRUE
      [] mode = "if_absent" -> k \notin DOMAIN store
      [] mode = "if_version" -> IsInstanceInt(expect) /\ expect.n = CurVer(versions, k)
      [] OTHER -> FALSE

\* context_store after ctx_put
ctx_put_store(store, versions, k, v, mode, expect) ==
    IF ctx_put_applies(store, versions, k, mode, expect)
    THEN (k :> v) @@ store
    ELSE store

\* the version a put that applies writes: the expected one, not the current one, plus 1
ctx_put_new_version_expect(versions, k, expect) == expect.n + 1

\* context_versions[k] = cur_ver + 1
ctx_put_new_version(versions, k, expect) == CurVer(versions, k) + 1

\* context_versions after ctx_put
ctx_put_versions(store, versions, k, v, mode, expect) ==
    IF ctx_put_applies(store, versions, k, mode, expect)
    THEN [versions EXCEPT ![k] = ctx_put_new_version(versions, k, expect)]
    ELSE versions

\* a put that does not apply reports the version the caller expected
ctx_put_result_echo(store, versions, k, v, mode, expect) ==
    IF ctx_put_applies(store, versions, k, mode, expect)
    THEN [ok |-> TRUE, key |-> k, version |-> CurVer(versions, k) + 1, error |-> ""]
    ELSE [ok |-> FALSE, key |-> k, version |-> expect.n, error |-> "version_mismatch"]

\* the result ctx_put appends to the transcript
ctx_put_result(store, versions, k, v, mode, expect) ==
    IF ctx_put_applies(store, versions, k, mode, expect)
    THEN [ok |-> TRUE, key |-> k,
          version |-> ctx_put_versions(store, versions, k, v, mode, expect)[k], error |-> ""]
    ELSE [ok |-> FALSE, key |-> k, version |-> CurVer(versions, k), error |-> "version_mismatch"]

\* the result of ctx_get: val = context_store.get(k)
ctx_get_result(store, versions, k) ==
    [key |-> k, present |-> k \in DOMAIN store,
     value |-> IF k \in DOMAIN store THEN store[k] ELSE [null |-> TRUE],
     version |-> CurVer(versions, k)]

\* str(k).startswith(str(prefix)) on the keys and prefixes of the model
StartsWith(k, prefix) ==
    \/ prefix = ""
    \/ prefix = k
    \/ prefix = "coord:" /\ k = "coord:queue"
    \/ prefix = "p" /\ k \in {"phase", "plan"}

Prefixes == {"", "coord:", "p", "plan", "x"}

\* the keys ctx_keys lists (as a set: the order of the list is not modelled)
ctx_keys_result(store, prefix) ==
    {k \in DOMAIN store : prefix = "" \/ StartsWith(k, prefix)}

ctx_put(a, k, v, mode, expect) ==
    /\ ctx_put_applies(context_store, context_versions, k, mode, expect)
         => CurVer(context_versions, k) < MaxVersion
    /\ context_store' = ctx_put_store(context_store, context_versions, k, v, mode, expect)
    /\ context_versions' = ctx_put_versions(context_store, context_versions, k, v, mode, expect)
    /\ UNCHANGED <<now, queueVars, round, rateVars, fsVars, breakerVars, writeVars>>

ctx_get(a, k) ==
    /\ ctx_get_result(context_store, context_versions, k).key = k
    /\ UNCHANGED vars

ctx_keys(a, prefix) ==
    /\ ctx_keys_result(context_store, prefix) \subseteq DOMAIN context_store
    /\ UNCHANGED vars

\* for r in range(1, args.rounds + 1): context_store["phase"] = r;
\* round_outputs = {}    (the queue is seeded in round 1 only, which Init covers)
BeginRound ==
    /\ round < MaxRounds
    /\ round' = round + 1
    /\ context_store' = ("phase" :> IntVal(round + 1)) @@ context_store
    /\ round_outputs' = [a \in Agents |-> ""]
    /\ turn' = 1
    /\ pc' = "check"
    /\ approved' = {}
    /\ UNCHANGED <<now, queueVars, context_versions, rateVars, fsVars, agent_state,
                   openedAt, consec, pending_writes, final_consensus>>

(***************************************************************************)
(* Rate limiter: ToolExecutor._rate_check.                                 *)
(***************************************************************************)
RlMax == 2          \* rl_max: tool_max_per_window / SWARM_TOOL_MAX
RlWindow == 2       \* rl_window: tool_window_sec / SWARM_TOOL_WINDOW

Tools == {"fs_list", "fs_read", "search_text", "fs_stat", "fs_write", "health_check"}
Actors == Agents \cup {"-"}                  \* actor or '-'

\* key = f"{tool}:{actor or '-'}": no tool name holds a colon, so the pair is the key
RateKey(tool, actor) == <<tool, actor>>
RateKeys == {RateKey(tool, actor) : tool \in Tools, actor \in Actors}

\* q[:] = [t for t in q if now - t < self.rl_window]
Unexpired(q, t) == SelectSeq(q, LAMBDA e : t - e < RlWindow)

\* if len(q) > self.rl_max
RateRejects_off_by_one(events, key, t) == Len(Unexpired(events[key], t)) > RlMax

\* if len(q) >= self.rl_max
RateRejects(events, key, t) == Len(Unexpired(events[key], t)) >= RlMax

SeqMin(q) == CHOOSE m \in {q[i] : i \in DOMAIN q} : \A i \in DOMAIN q : m <= q[i]
Max0(n) == IF n < 0 THEN 0 ELSE n

\* the window of every key after a check that records the event in both branches
rate_check_events_always(events, key, t) ==
    [events EXCEPT ![key] = Append(Unexpired(events[key], t), t)]

\* _rl_events after _rate_check(tool, actor) at time t
rate_check_events(events, key, t) ==
    IF RateRejects(events, key, t)
    THEN [events EXCEPT ![key] = Unexpired(events[key], t)]
    ELSE [events EXCEPT ![key] = Append(Unexpired(events[key], t), t)]

\* what _rate_check returns: None when admitted, else the rate_limited result
rate_check_result(events, key, t) ==
    LET q == Unexpired(events[key], t) IN
    IF RateRejects(events, key, t)
    THEN [error |-> "rate_limited", code |-> 429, tool |-> key[1], scope |-> key[2],
          remaining |-> Max0(RlMax - Len(q)),
          reset_sec |-> IF Len(q) = 0 THEN 0 ELSE Max0(RlWindow - (t - SeqMin(q)))]
    ELSE [error |-> "", code |-> 0, tool |-> key[1], scope |-> key[2],
          remaining |-> 0, reset_sec |-> 0]

\* one call of _rate_check; `accepted` records the admitted calls
rate_check(tool, actor) ==
    LET key == RateKey(tool, actor) IN
    /\ rl_events' = rate_check_events(rl_events, key, now)
    /\ accepted' = IF rate_check_result(rl_events, key, now).error = ""
                   THEN [accepted EXCEPT ![key] = Append(@, now)]
                   ELSE accepted
    /\ UNCHANGED <<now, queueVars, ctxVars, round, fsVars, breakerVars, writeVars>>

(***************************************************************************)
(* Sandbox: ToolExecutor._safe_path and the operations that take a path.   *)
(* A path is the sequence of its components below "/"; the text of a path  *)
(* (str(p)) is the sequence of its characters.                             *)
(***************************************************************************)
Root == <<"w">>                 \* self.root = Path(root).resolve(): the directory /w

\* the characters of the component names of the model
NameChars ==
    ("w" :> <<"w">>) @@ ("w2" :> <<"w", "2">>) @@ ("etc" :> <<"e", "t", "c">>)
        @@ ("passwd" :> <<"p", "a", "s", "s", "w", "d">>) @@ ("a" :> <<"a">>)
        @@ ("s" :> <<"s">>) @@ ("n" :> <<"n">>) @@ ("sub" :> <<"s", "u", "b">>)
        @@ ("c" :> <<"c">>)

\* str(p)
RECURSIVE Str(_)
Str(p) ==
    IF p = <<>> THEN <<"/">>
    ELSE IF Len(p) = 1 THEN <<"/">> \o NameChars[p[1]]
    ELSE Str(SubSeq(p, 1, Len(p) - 1)) \o <<"/">> \o NameChars[p[Len(p)]]

\* s.startswith(prefix) on texts
StrStartsWith(s, prefix) ==
    Len(prefix) <= Len(s) /\ SubSeq(s, 1, Len(prefix)) = prefix

\* a path argument: the text of an absolute or a relative path, by components
RelPath(parts) == [abs |-> FALSE, parts |-> parts]
AbsPath(parts) == [abs |-> TRUE, parts |-> parts]

\* Path.resolve() where no component is a symbolic link
RECURSIVE Normalize(_, _)
Normalize(base, parts) ==
    IF parts = <<>> THEN base
    ELSE IF Head(parts) = ".."
    THEN Normalize(IF base = <<>> THEN base ELSE SubSeq(base, 1, Len(base) - 1), Tail(parts))
    ELSE Normalize(Append(base, Head(parts)), Tail(parts))

\* (self.root / path).resolve(): an absolute path replaces the root
Resolve(arg) == Normalize(IF arg.abs THEN <<>> ELSE Root, arg.parts)

\* p is d or lies below d
IsUnder(p, d) == Len(d) <= Len(p) /\ SubSeq(p, 1, Len(d)) = d

\* p.relative_to(self.root) succeeds
Inside(p) == IsUnder(p, Root)

\* _safe_path raises ValueError("Path escapes workspace")
safe_path_raises(arg) == ~StrStartsWith(Str(Resolve(arg)), Str(Root))

PathEscape == "ValueError: Path escapes workspace"
NotInSubpath == "ValueError: not in the subpath"     \* raised by relative_to

\* the outcome of a sandbox call: a result that is returned, or an exception
Returned(error, code, data) == [error |-> error, code |-> code, raised |-> "", data |-> data]
Raised(exc) == [error |-> "", code |-> 0, raised |-> exc, data |-> ""]

Ancestors(p) == {SubSeq(p, 1, n) : n \in 0..(Len(p) - 1)}

\* The *_effect operators give what a call does once _rate_check has admitted
\* it: its outcome, and `touched`, the paths it passed to the filesystem
\* (exists, stat, read, scandir, mkdir, write).

\* read_file(path)
read_file_effect(fs, ds, arg) ==
    LET p == Resolve(arg) IN
    IF safe_path_raises(arg) THEN [res |-> Raised(PathEscape), touched |-> {}]
    ELSE IF p \in ds THEN [res |-> Raised("IsADirectoryError"), touched |-> {p}]
    ELSE IF ~Inside(p) THEN [res |-> Raised(NotInSubpath), touched |-> {p}]
    ELSE [res |-> Returned("", 0, IF p \in DOMAIN fs THEN fs[p] ELSE ""), touched |-> {p}]

\* stat_file(path)
stat_file_effect(fs, ds, arg) ==
    LET p == Resolve(arg) IN
    IF safe_path_raises(arg) THEN [res |-> Raised(PathEscape), touched |-> {}]
    ELSE IF ~Inside(p) THEN [res |-> Raised(NotInSubpath), touched |-> {p}]
    ELSE IF p \notin DOMAIN fs /\ p \notin ds
    THEN [res |-> Returned("not_found", 404, ""), touched |-> {p}]
    ELSE [res |-> Returned("", 0, IF p \in ds THEN "is_dir" ELSE "is_file"), touched |-> {p}]

\* the directories os.walk(base) lists, and the files it finds
Walked(ds, base) == IF base \in ds THEN {d \in ds : IsUnder(d, base)} ELSE {base}
Found(fs, ds, base) == IF base \in ds THEN {f \in DOMAIN fs : IsUnder(f, base)} ELSE {}

\* list_files(dir), no pattern, fewer files than max_results, before the deadline
list_files_effect(fs, ds, arg) ==
    LET base == Resolve(arg) IN
    IF safe_path_raises(arg) THEN [res |-> Raised(PathEscape), touched |-> {}]
    ELSE IF \E f \in Found(fs, ds, base) : ~Inside(f)
    THEN [res |-> Raised(NotInSubpath), touched |-> Walked(ds, base)]
    ELSE [res |-> Returned("", 0, Found(fs, ds, base)), touched |-> Walked(ds, base)]

\* regex.search(line) for some line of the file: "." matches any file with text
Patterns == {".", "zzz"}
Matches(pattern, text) == pattern = "." /\ text # ""

\* search_text(pattern, dir), fewer matches than max_matches, before the deadline:
\* every file found is read; the scan ends in relative_to when a matching file
\* is not below the root
search_text_effect(fs, ds, pattern, arg) ==
    LET base == Resolve(arg)
        hits == {f \in Found(fs, ds, base) : Matches(pattern, fs[f])}
    IN
    IF safe_path_raises(arg) THEN [res |-> Raised(PathEscape), touched |-> {}]
    ELSE IF \E f \in hits : ~Inside(f)
    THEN [res |-> Raised(NotInSubpath),
          touched |-> Walked(ds, base) \cup {CHOOSE f \in hits : ~Inside(f)}]
    ELSE [res |-> Returned("", 0, hits), touched |-> Walked(ds, base) \cup Found(fs, ds, base)]

\* write_file with the directories made before allow_write is looked at
write_file_effect_mkdir_first(aw, fs, ds, arg, content, create_dirs, allow_overwrite) ==
    LET p == Resolve(arg)
        parent == SubSeq(p, 1, Len(p) - 1)
        made == IF create_dirs THEN Ancestors(p) \ ds ELSE {}
        ds1 == ds \cup made
        same(res, touched) == [res |-> res, touched |-> touched, files |-> fs, dirs |-> ds]
        out(res) == IF Inside(p) THEN res ELSE Raised(NotInSubpath)
    IN
    IF safe_path_raises(arg) THEN same(Raised(PathEscape), {})
    ELSE IF create_dirs /\ Ancestors(p) \cap DOMAIN fs # {}
    THEN same(Raised("FileExistsError"), Ancestors(p))
    ELSE IF ~aw
    THEN [res |-> out(Returned("writes_disabled", 423, "")), touched |-> made,
          files |-> fs, dirs |-> ds1]
    ELSE IF (p \in DOMAIN fs \/ p \in ds1) /\ ~allow_overwrite
    THEN [res |-> out(Returned("exists", 409, "")), touched |-> made \cup {p},
          files |-> fs, dirs |-> ds1]
    ELSE IF p \in ds1
    THEN [res |-> Raised("IsADirectoryError"), touched |-> made \cup {p},
          files |-> fs, dirs |-> ds1]
    ELSE IF parent \notin ds1
    THEN [res |-> Raised("FileNotFoundError"), touched |-> {p}, files |-> fs, dirs |-> ds1]
    ELSE [res |-> out(Returned("", 0, "applied")), touched |-> made \cup {p},
          files |-> (p :> content) @@ fs, dirs |-> ds1]

\* write_file(path, content, create_dirs, allow_overwrite)
write_file_effect(aw, fs, ds, arg, content, create_dirs, allow_overwrite) ==
    LET p == Resolve(arg)
        parent == SubSeq(p, 1, Len(p) - 1)
        made == IF create_dirs THEN Ancestors(p) \ ds ELSE {}
        ds1 == ds \cup made
        same(res, touched) == [res |-> res, touched |-> touched, files |-> fs, dirs |-> ds]
        out(res) == IF Inside(p) THEN res ELSE Raised(NotInSubpath)
    IN
    IF safe_path_raises(arg) THEN same(Raised(PathEscape), {})
    ELSE IF ~aw THEN same(out(Returned("writes_disabled", 423, "")), {})
    ELSE IF create_dirs /\ Ancestors(p) \cap DOMAIN fs # {}
    THEN same(Raised("FileExistsError"), Ancestors(p))      \* mkdir over a file
    ELSE IF (p \in DOMAIN fs \/ p \in ds1) /\ ~allow_overwrite
    THEN [res |-> out(Returned("exists", 409, "")), touched |-> made \cup {p},
          files |-> fs, dirs |-> ds1]
    ELSE IF p \in ds1
    THEN [res |-> Raised("IsADirectoryError"), touched |-> made \cup {p},
          files |-> fs, dirs |-> ds1]
    ELSE IF parent \notin ds1
    THEN [res |-> Raised("FileNotFoundError"), touched |-> {p}, files |-> fs, dirs |-> ds1]
    ELSE [res |-> out(Returned("", 0, "applied")), touched |-> made \cup {p},
          files |-> (p :> content) @@ fs, dirs |-> ds1]

\* the path arguments agents send
PathArgs ==
    {RelPath(<<"a">>), RelPath(<<>>), RelPath(<<"sub", "c">>),
     RelPath(<<"..", "w2", "s">>), RelPath(<<"..", "w2">>),
     RelPath(<<"..", "..", "etc", "passwd">>), AbsPath(<<"etc", "passwd">>)}

Contents == {"new"}

\* what _rate_check answered to the call: None (error "") or the 429 result
NoLimit == [error |-> "", code |-> 0, remaining |-> 0, reset_sec |-> 0]
Limited(rl) == [error |-> rl.error, code |-> rl.code, remaining |-> rl.remaining,
                reset_sec |-> rl.reset_sec]

NoCall == [tool |-> "", actor |-> "-", arg |-> RelPath(<<>>), rl |-> NoLimit,
           res |-> Returned("", 0, ""), touched |-> {}]

\* no read-only call has been dispatched yet
NoEntry == [who |-> "", tool |-> "", actor |-> "-", arg |-> RelPath(<<>>),
            res |-> Returned("", 0, "")]

\* the first statement of every sandbox operation: rl = self._rate_check(tool, actor)
RateStep(tool, actor) ==
    LET key == RateKey(tool, actor) IN
    /\ rl_events' = rate_check_events(rl_events, key, now)
    /\ accepted' = IF rate_check_result(rl_events, key, now).error = ""
                   THEN [accepted EXCEPT ![key] = Append(@, now)]
                   ELSE accepted

\* an operation that goes on although the limiter rejected the call
SandboxStep_unchecked(tool, actor, arg, eff, fs1, ds1) ==
    LET rl == rate_check_result(rl_events, RateKey(tool, actor), now) IN
    /\ ioLog' = [tool |-> tool, actor |-> actor, arg |-> arg, rl |-> Limited(rl),
                 res |-> eff.res, touched |-> eff.touched]
    /\ files' = fs1
    /\ dirs' = ds1

\* `if rl: return rl`, else the operation itself
SandboxStep(tool, actor, arg, eff, fs1, ds1) ==
    LET rl == rate_check_result(rl_events, RateKey(tool, actor), now) IN
    IF rl.error # ""
    THEN /\ ioLog' = [tool |-> tool, actor |-> actor, arg |-> arg, rl |-> Limited(rl),
                      res |-> Returned(rl.error, rl.code, ""), touched |-> {}]
         /\ UNCHANGED <<files, dirs>>
    ELSE /\ ioLog' = [tool |-> tool, actor |-> actor, arg |-> arg, rl |-> NoLimit,
                      res |-> eff.res, touched |-> eff.touched]
         /\ files' = fs1
         /\ dirs' = ds1

read_file(path, actor) ==
    /\ RateStep("fs_read", actor)
    /\ SandboxStep("fs_read", actor, path, read_file_effect(files, dirs, path), files, dirs)
    /\ UNCHANGED <<now, queueVars, ctxVars, round, sideVars, breakerVars, writeVars>>

stat_file(path, actor) ==
    /\ RateStep("fs_stat", actor)
    /\ SandboxStep("fs_stat", actor, path, stat_file_effect(files, dirs, path), files, dirs)
    /\ UNCHANGED <<now, queueVars, ctxVars, round, sideVars, breakerVars, writeVars>>

list_files(dir, actor) ==
    /\ RateStep("fs_list", actor)
    /\ SandboxStep("fs_list", actor, dir, list_files_effect(files, dirs, dir), files, dirs)
    /\ UNCHANGED <<now, queueVars, ctxVars, round, sideVars, breakerVars, writeVars>>

search_text(pattern, dir, actor) ==
    /\ RateStep("search_text", actor)
    /\ SandboxStep("search_text", actor, dir,
                   search_text_effect(files, dirs, pattern, dir), files, dirs)
    /\ UNCHANGED <<now, queueVars, ctxVars, round, sideVars, breakerVars, writeVars>>

write_file(path, content, create_dirs, allow_overwrite, actor) ==
    LET eff == write_file_effect(allow_write, files, dirs, path, content, create_dirs,
                                 allow_overwrite)
    IN
    /\ RateStep("fs_write", actor)
    /\ SandboxStep("fs_write", actor, path, eff, eff.files, eff.dirs)
    /\ UNCHANGED <<now, queueVars, ctxVars, round, sideVars, breakerVars, writeVars>>

\* The scans of list_files and search_text with their cap and deadline.  os.walk
\* yields the files in an order the directory listing decides: `order` is any
\* order of the files found.  time.time() > deadline holds from the late_at-th
\* file on.
Orders(S) == {o \in [1..Cardinality(S) -> S] : \A i, j \in DOMAIN o : o[i] = o[j] => i = j}
Caps == {0, 1, 2}               \* max_results, max_matches: int(args_map.get(...))
LateAts == {1, 2, 3}

\* list_files: items.append(rel); if len(items) >= max_results: break;
\* if time.time() > deadline: return ... timeout
RECURSIVE list_scan(_, _, _, _)
list_scan(order, items, max_results, late_at) ==
    IF order = <<>> THEN [items |-> items, error |-> "", code |-> 0]
    ELSE LET items1 == Append(items, Head(order)) IN
         IF Len(items1) >= max_results THEN [items |-> items1, error |-> "", code |-> 0]
         ELSE IF Len(items1) >= late_at THEN [items |-> items1, error |-> "timeout", code |-> 408]
         ELSE list_scan(Tail(order), items1, max_results, late_at)

\* search_text, each file one line: if regex.search(line): matches.append(...);
\* if len(matches) >= max_matches: return; if time.time() > deadline: return ... timeout
RECURSIVE search_scan(_, _, _, _, _, _, _)
search_scan(fs, pattern, order, seen, matches, max_matches, late_at) ==
    IF order = <<>> THEN [items |-> matches, error |-> "", code |-> 0]
    ELSE LET hit == Matches(pattern, fs[Head(order)])
             matches1 == IF hit THEN Append(matches, Head(order)) ELSE matches
         IN
         IF hit /\ Len(matches1) >= max_matches
         THEN [items |-> matches1, error |-> "", code |-> 0]
         ELSE IF seen + 1 >= late_at
         THEN [items |-> matches1, error |-> "timeout", code |-> 408]
         ELSE search_scan(fs, pattern, Tail(order), seen + 1, matches1, max_matches, late_at)

\* list_files(dir, max_results=cap) and search_text(pattern, dir, max_matches=cap)
\* on a directory whose files all lie below the root
scan_effect(fs, ds, arg, scan) ==
    IF list_files_effect(fs, ds, arg).res.raised # ""
    THEN list_files_effect(fs, ds, arg)
    ELSE [res |-> Returned(scan.error, scan.code, scan.items),
          touched |-> Walked(ds, Resolve(arg))]

list_files_capped(dir, max_results, late_at, actor) ==
    /\ RateStep("fs_list", actor)
    /\ \E order \in Orders(Found(files, dirs, Resolve(dir))) :
           SandboxStep("fs_list", actor, dir,
                       scan_effect(files, dirs, dir, list_scan(order, <<>>, max_results, late_at)),
                       files, dirs)
    /\ UNCHANGED <<now, queueVars, ctxVars, round, sideVars, breakerVars, writeVars>>

search_text_capped(pattern, dir, max_matches, late_at, actor) ==
    /\ RateStep("search_text", actor)
    /\ \E order \in Orders(Found(files, dirs, Resolve(dir))) :
           SandboxStep("search_text", actor, dir,
                       scan_effect(files, dirs, dir,
                                   search_scan(files, pattern, order, 0, <<>>, max_matches,
                                               late_at)),
                       files, dirs)
    /\ UNCHANGED <<now, queueVars, ctxVars, round, sideVars, breakerVars, writeVars>>

\* health_check(): the environment report; no path, no filesystem access
health_check_effect == [res |-> Returned("", 0, "report"), touched |-> {}]

health_check(actor) ==
    /\ RateStep("health_check", actor)
    /\ SandboxStep("health_check", actor, RelPath(<<>>), health_check_effect, files, dirs)
    /\ UNCHANGED <<now, queueVars, ctxVars, round, sideVars, breakerVars, writeVars>>

(***************************************************************************)
(* Circuit breaker: main(), the per-agent part of the round loop.          *)
(***************************************************************************)
CbThreshold == 2    \* cb_threshold: SWARM_CB_THRESHOLD
CbCooldown == 2     \* cb_cooldown: cb_cooldown_sec / SWARM_CB_COOLDOWN, in seconds

\* the skip test with the instant open_until itself still counted as open
BreakerOpen_inclusive(st, t) == st.open_until >= t

\* if st.get("open_until", 0) > now
BreakerOpen(st, t) == st.open_until > t

\* a success that clears open_until and keeps the failure count
SuccessState_keep(st) == [st EXCEPT !.open_until = 0]

\* agent_state[a.name] = {"fail": 0, "open_until": 0}
SuccessState(st) == [fail |-> 0, open_until |-> 0]

\* a failure handler that counts the failure twice
FailureState_twice(st, t) ==
    IF st.fail + 2 >= CbThreshold
    THEN [fail |-> st.fail + 2, open_until |-> t + CbCooldown]
    ELSE [st EXCEPT !.fail = st.fail + 2]

\* the entries an except branch appends to the transcript for agent a
Exceptions == {"SystemExit", "Exception"}
failure_entries(a, exc) ==
    <<[who |-> a, content |-> IF exc = "SystemExit" THEN "Agent error" ELSE "Agent exception"]>>

\* a failure handler that starts counting afresh once the breaker has been open
FailureState_recount(st, t) ==
    IF st.open_until > 0
    THEN [fail |-> 1, open_until |-> 0]
    ELSE IF st.fail + 1 >= CbThreshold
    THEN [fail |-> st.fail + 1, open_until |-> t + CbCooldown]
    ELSE [st EXCEPT !.fail = st.fail + 1]

\* the two except branches: st["fail"] += 1; open the breaker at the threshold
FailureState(st, t) ==
    IF st.fail + 1 >= CbThreshold
    THEN [fail |-> st.fail + 1, open_until |-> t + CbCooldown]
    ELSE [st EXCEPT !.fail = st.fail + 1]

\* the for loop over the agents moves on; after the last agent comes the arbiter
Advance ==
    IF turn < Len(agents)
    THEN turn' = turn + 1 /\ pc' = "check"
    ELSE turn' = turn /\ pc' = "arbiter"

\* the breaker is open: the skip message is recorded, `continue`
BreakerSkip ==
    LET a == agents[turn] IN
    /\ pc = "check"
    /\ BreakerOpen(agent_state[a], now)
    /\ round_outputs' = [round_outputs EXCEPT ![a] = "skipped"]
    /\ Advance
    /\ UNCHANGED <<now, queueVars, ctxVars, round, rateVars, fsVars, agent_state,
                   openedAt, consec, writeVars>>

\* the breaker is not open: out = a.call(rp) is under way
Invoke ==
    LET a == agents[turn] IN
    /\ pc = "check"
    /\ ~BreakerOpen(agent_state[a], now)
    /\ pc' = "calling"
    /\ UNCHANGED <<now, queueVars, ctxVars, round, rateVars, fsVars, agent_state,
                   round_outputs, turn, openedAt, consec, writeVars>>

\* a.call returned: the output is recorded and the breaker state reset
CallSucceeds ==
    LET a == agents[turn] IN
    /\ pc = "calling"
    /\ round_outputs' = [round_outputs EXCEPT ![a] = "output"]
    /\ agent_state' = [agent_state EXCEPT ![a] = SuccessState(@)]
    /\ consec' = [consec EXCEPT ![a] = 0]
    /\ Advance
    /\ UNCHANGED <<now, queueVars, ctxVars, round, rateVars, fsVars, openedAt, writeVars>>

\* a.call raised SystemExit or an Exception
CallFails ==
    LET a == agents[turn] IN
    /\ pc = "calling"
    /\ round_outputs' = [round_outputs EXCEPT ![a] = "error"]
    /\ agent_state' = [agent_state EXCEPT ![a] = FailureState(@, now)]
    /\ consec' = [consec EXCEPT ![a] = @ + 1]
    /\ openedAt' = [openedAt EXCEPT ![a] = IF consec[a] + 1 >= CbThreshold THEN <<now>> ELSE @]
    /\ Advance
    /\ UNCHANGED <<now, queueVars, ctxVars, round, rateVars, fsVars, writeVars>>

ConsensusTexts == {"continue", "stop"}

\* consensus = arb.call(cp); final_consensus = consensus; the write resolution
\* follows when proposals are pending
ArbiterConsensus ==
    /\ pc = "arbiter"
    /\ \E text \in ConsensusTexts : final_consensus' = [round |-> round, text |-> text]
    /\ pc' = IF pending_writes = <<>> THEN "next" ELSE "review"
    /\ UNCHANGED <<now, queueVars, ctxVars, round, rateVars, fsVars, agent_state,
                   round_outputs, turn, openedAt, consec, pending_writes, approved>>

\* arb.call raised: nothing catches it, main() ends
ArbiterFails ==
    /\ pc = "arbiter"
    /\ pc' = "aborted"
    /\ UNCHANGED <<now, queueVars, ctxVars, round, rateVars, fsVars, agent_state,
                   round_outputs, turn, openedAt, consec, writeVars>>

\* the round loop is exhausted
EndRun ==
    /\ pc = "next"
    /\ round = MaxRounds
    /\ pc' = "end"
    /\ UNCHANGED <<now, queueVars, ctxVars, round, rateVars, fsVars, agent_state,
                   round_outputs, turn, openedAt, consec, writeVars>>

(***************************************************************************)
(* Tool calls: safety/validator.py and the head of the dispatch loop.      *)
(* A call is [name, args]; args maps the keys present to JSON values, each *)
(* value carrying its Python type t and its content v.                     *)
(***************************************************************************)
ArgStr(v) == [t |-> "str", v |-> v]
ArgInt(n) == [t |-> "int", v |-> n]
ArgBool(b) == [t |-> "bool", v |-> b]
ArgNone == [t |-> "NoneType", v |-> None]
ArgObj == [t |-> "dict", v |-> None]

Call(name, args) == [name |-> name, args |-> args]
NoArgs == [k \in {} |-> ArgNone]

\* one key of a tool's argument table: a bare type is required, a tuple of types
\* is optional
Req(key, types) == [key |-> key, types |-> types, required |-> TRUE]
Opt(key, types) == [key |-> key, types |-> types, required |-> FALSE]

\* ALLOWED_TOOLS, the keys of each tool in the order of the dict
ALLOWED_TOOLS ==
    ("fs_list" :> <<Req("dir", {"str"}), Opt("pattern", {"str", "NoneType"}),
                    Opt("max_results", {"int", "NoneType"})>>)
    @@ ("fs_read" :> <<Req("path", {"str"}), Opt("max_bytes", {"int", "NoneType"})>>)
    @@ ("search_text" :> <<Req("pattern", {"str"}), Opt("dir", {"str", "NoneType"}),
                           Opt("max_matches", {"int", "NoneType"})>>)
    @@ ("fs_stat" :> <<Req("path", {"str"})>>)
    @@ ("fs_write" :> <<Req("path", {"str"}), Req("content", {"str"}),
                        Opt("create_dirs", {"bool", "NoneType"}),
                        Opt("allow_overwrite", {"bool", "NoneType"})>>)
    @@ ("health_check" :> <<>>)

\* isinstance(value, types): bool is a subclass of int
IsInstance(t, types) == t \in types \/ (t = "bool" /\ "int" \in types)

\* the verdict of validate_tool_call on one key of the table ("": passes)
KeyVerdict(k, args) ==
    IF k.key \notin DOMAIN args THEN (IF k.required THEN "missing" ELSE "")
    ELSE IF IsInstance(args[k.key].t, k.types) THEN "" ELSE "bad_type"

\* validate_tool_call(name, args): the reason, and the key or name it is about
validate_tool_call(name, args) ==
    IF name \notin DOMAIN ALLOWED_TOOLS
    THEN [ok |-> FALSE, reason |-> "unknown_tool", about |-> name]
    ELSE LET spec == ALLOWED_TOOLS[name]
             bad == {i \in 1..Len(spec) : KeyVerdict(spec[i], args) # ""}
         IN IF bad = {} THEN [ok |-> TRUE, reason |-> "ok", about |-> ""]
            ELSE LET i == CHOOSE i \in bad : \A j \in bad : i <= j
                 IN [ok |-> FALSE, reason |-> KeyVerdict(spec[i], args), about |-> spec[i].key]

\* the element validate_tool_calls returns for a call: error is "" when valid
Validated(call) ==
    LET v == validate_tool_call(call.name, call.args) IN
    [name |-> call.name, args |-> call.args, error |-> IF v.ok THEN "" ELSE v.reason]

\* a validation that returns the valid calls only
validate_tool_calls_valid_only(calls) ==
    SelectSeq([i \in 1..Len(calls) |-> Validated(calls[i])], LAMBDA c : c.error = "")

\* validate_tool_calls(calls): one element per call, in order
validate_tool_calls(calls) == [i \in 1..Len(calls) |-> Validated(calls[i])]

\* what the dispatch loop appends to the transcript for a call that carries an
\* error, before it goes on to the next call
tool_error_entries(a, c) ==
    <<[who |-> "ToolError", agent |-> a,
       content |-> [error |-> c.error, code |-> 400, tool |-> c.name]]>>

\* where the dispatch loop takes a validated call
dispatch_target(c) ==
    IF c.error # "" THEN "ToolError"                    \* 400, `continue`
    ELSE IF c.name \in {"fs_list", "fs_read", "search_text", "fs_stat", "health_check"}
    THEN "ToolSandbox"
    ELSE IF c.name \in {"ctx_put", "ctx_get", "ctx_keys"} THEN "ContextStore"
    ELSE IF c.name \in {"coord_enqueue", "coord_next", "coord_claim", "coord_complete",
                        "coord_extend", "coord_status"}
    THEN "WorkQueue"
    ELSE IF c.name = "fs_write" THEN "WriteProposal"
    ELSE "none"                                         \* no branch of the elif chain

(***************************************************************************)
(* Write proposals and their resolution at the end of the round.           *)
(***************************************************************************)
\* bool(args_map.get(key, True))
ArgTruth(args, key) == IF key \in DOMAIN args THEN args[key].v = TRUE ELSE TRUE

\* the proposal the fs_write branch builds
Proposal(a, args) ==
    [by |-> a,
     path |-> args["path"].v,            \* present and a str by validation
     content |-> IF "content" \in DOMAIN args THEN args["content"].v ELSE "",
     create_dirs |-> ArgTruth(args, "create_dirs"),
     allow_overwrite |-> ArgTruth(args, "allow_overwrite")]

\* pending_writes.append(proposal)
fs_write_pending(pending, a, args) == Append(pending, Proposal(a, args))

\* `not path` for the path of a proposal, a str by validation: "" is falsy
Falsy(path) == path = RelPath(<<>>)

\* path_counts[p.get("path") or ""]
PathCount(pending, path) ==
    Cardinality({i \in 1..Len(pending) :
                    IF Falsy(path) THEN Falsy(pending[i].path) ELSE pending[i].path = path})

\* conflicts = [path for path, cnt in path_counts.items() if cnt > 1 and path]
Conflicts(pending) ==
    {pending[i].path : i \in {j \in 1..Len(pending) :
                                 PathCount(pending, pending[j].path) > 1
                                     /\ ~Falsy(pending[j].path)}}

\* a resolution that takes the first pending proposal whatever path was decided
FirstMatch_any(pending, path) == IF pending = <<>> THEN 0 ELSE 1

\* next((p for p in pending_writes if p.get("path") == path), None)   (0: None)
FirstMatch(pending, path) ==
    IF \E i \in 1..Len(pending) : pending[i].path = path
    THEN CHOOSE i \in 1..Len(pending) :
             pending[i].path = path /\ \A j \in 1..(i - 1) : pending[j].path # path
    ELSE 0

\* tools.write_file(...) for a proposal, called without an actor
ApplyWrite(st, aw, t, prop) ==
    LET key == RateKey("fs_write", "-")
        rl == rate_check_result(st.events, key, t)
        eff == write_file_effect(aw, st.files, st.dirs, prop.path, prop.content,
                                 prop.create_dirs, prop.allow_overwrite)
    IN
    IF rl.error # ""
    THEN [st EXCEPT !.events = rate_check_events(st.events, key, t),
                    !.log = [tool |-> "fs_write", actor |-> "-", arg |-> prop.path,
                             rl |-> Limited(rl), res |-> Returned(rl.error, rl.code, ""),
                             touched |-> {}]]
    ELSE [files |-> eff.files, dirs |-> eff.dirs,
          events |-> rate_check_events(st.events, key, t),
          accepted |-> [st.accepted EXCEPT ![key] = Append(@, t)],
          raised |-> eff.res.raised,
          log |-> [tool |-> "fs_write", actor |-> "-", arg |-> prop.path, rl |-> NoLimit,
                   res |-> eff.res, touched |-> eff.touched]]

\* for d in decisions_obj["decisions"]: an approved decision whose path a pending
\* proposal carries is written; an exception of write_file ends the loop
RECURSIVE ApplyDecisions(_, _, _, _, _)
ApplyDecisions(decs, pending, st, aw, t) ==
    IF decs = <<>> \/ st.raised # "" THEN st
    ELSE LET d == Head(decs)
             m == FirstMatch(pending, d.path)
         IN IF d.action # "approve" \/ m = 0
            THEN ApplyDecisions(Tail(decs), pending, st, aw, t)
            ELSE ApplyDecisions(Tail(decs), pending, ApplyWrite(st, aw, t, pending[m]), aw, t)

\* the agent whose output the loop is dispatching: it has just succeeded and the
\* next agent's breaker check (or the arbiter) has not begun
Dispatching(a) ==
    /\ round_outputs[a] = "output"
    /\ \/ pc = "check" /\ turn > 1 /\ agents[turn - 1] = a
       \/ pc = "arbiter" /\ agents[Len(agents)] = a

\* the calls agents send in the rounds modelled: fs_write with its required
\* arguments, with one missing, with one of the wrong type; ctx_get; coord_status
ProposalPaths ==
    {RelPath(<<"a">>), RelPath(<<>>), RelPath(<<"..", "..", "etc", "passwd">>)}

FsWriteArgs(path) == ("path" :> ArgStr(path)) @@ ("content" :> ArgStr("new"))

RoundCalls ==
    {Call("fs_write", FsWriteArgs(p)) : p \in ProposalPaths}
        \cup {Call("fs_write", ("path" :> ArgStr(RelPath(<<"a">>)))),
              Call("fs_write", ("path" :> ArgInt(1)) @@ ("content" :> ArgStr("new"))),
              Call("ctx_get", ("key" :> ArgStr("phase"))),
              Call("coord_status", NoArgs)}

\* one call of each tool the dispatch loop has a branch for, with its required
\* arguments present and of the right type
SchemaCalls ==
    {Call("fs_list", ("dir" :> ArgStr(RelPath(<<>>)))),
     Call("fs_read", ("path" :> ArgStr(RelPath(<<"a">>)))),
     Call("search_text", ("pattern" :> ArgStr("."))),
     Call("fs_stat", ("path" :> ArgStr(RelPath(<<"a">>)))),
     Call("fs_write", FsWriteArgs(RelPath(<<"a">>))),
     Call("health_check", NoArgs),
     Call("ctx_put", ("key" :> ArgStr("k")) @@ ("value" :> ArgInt(1)) @@ ("mode" :> ArgStr("set"))),
     Call("ctx_get", ("key" :> ArgStr("phase"))),
     Call("ctx_keys", NoArgs),
     Call("coord_enqueue", ("kind" :> ArgStr("job")) @@ ("payload" :> ArgObj)),
     Call("coord_next", NoArgs),
     Call("coord_claim", ("id" :> ArgStr("1"))),
     Call("coord_extend", ("id" :> ArgStr("1"))),
     Call("coord_complete", ("id" :> ArgStr("1"))),
     Call("coord_status", NoArgs)}

\* the lists of calls extract_tool_calls hands to the validator
CallLists == UNION {[1..n -> RoundCalls] : n \in 0..MaxCalls}

\* one call of the agent's output: validated, then dispatched
tool_call(a, call) ==
    LET c == Validated(call)
        target == dispatch_target(c)
    IN
    /\ Dispatching(a)
    /\ IF target \in {"ToolError", "none"} THEN UNCHANGED vars
       ELSE IF target = "WriteProposal"
       THEN /\ Len(pending_writes) < MaxPending
            /\ pending_writes' = fs_write_pending(pending_writes, a, c.args)
            /\ UNCHANGED <<now, queueVars, ctxVars, round, rateVars, fsVars, breakerVars,
                           final_consensus, approved>>
       ELSE IF c.name = "ctx_get" THEN ctx_get(a, c.args["key"].v)
       ELSE IF c.name = "coord_status" THEN coord_status(a)
       ELSE FALSE

\* what the arbiter answers to the approval prompt: text that is no JSON
\* ("unparsable"), JSON that is no object, such as [1] ("not_object"), an object
\* without a list under "decisions" ("no_list"), an object whose list holds an
\* element that is no object, such as {"decisions": [1]} ("bad_element"), or an
\* object with a list of decisions
Malformed == {"unparsable", "not_object", "no_list", "bad_element"}
Decisions ==
    {[path |-> p, action |-> "approve"] : p \in ProposalPaths}
        \cup {[path |-> RelPath(<<"a">>), action |-> "reject"]}
DecisionLists == UNION {[1..n -> Decisions] : n \in 0..MaxDecisions}
Responses ==
    {[kind |-> k, decisions |-> <<>>] : k \in Malformed}
        \cup {[kind |-> "decisions", decisions |-> ds] : ds \in DecisionLists}

\* the paths of the decisions whose action is "approve"
Approved(resp) ==
    {resp.decisions[k].path : k \in {j \in 1..Len(resp.decisions) :
                                        resp.decisions[j].action = "approve"}}

\* the outcome of applying the decisions in the current state
Resolution(resp) ==
    ApplyDecisions(resp.decisions, pending_writes,
                   [files |-> files, dirs |-> dirs, events |-> rl_events, accepted |-> accepted,
                    raised |-> "", log |-> ioLog],
                   allow_write, now)

\* if pending_writes: approval_resp = arb.call(...), the decisions are applied,
\* pending_writes = [].  An exception leaves main().
WriteReview(resp) ==
    /\ pc = "review"
    /\ approved' = Approved(resp)
    /\ IF resp.kind \in {"unparsable", "no_list"}     \* "No valid write decision ..."
       THEN /\ pending_writes' = <<>>
            /\ pc' = "next"
            /\ UNCHANGED <<rateVars, files, dirs, ioLog>>
       ELSE IF resp.kind \in {"not_object", "bad_element"}
       THEN /\ pc' = "aborted"         \* decisions_obj.get, d.get: AttributeError
            /\ UNCHANGED <<pending_writes, rateVars, files, dirs, ioLog>>
       ELSE LET st == Resolution(resp) IN
            /\ files' = st.files
            /\ dirs' = st.dirs
            /\ rl_events' = st.events
            /\ accepted' = st.accepted
            /\ ioLog' = st.log
            /\ IF st.raised # ""
               THEN pc' = "aborted" /\ UNCHANGED pending_writes
               ELSE pc' = "next" /\ pending_writes' = <<>>
    /\ UNCHANGED <<now, queueVars, ctxVars, round, sideVars, agent_state, round_outputs,
                   turn, openedAt, consec, final_consensus>>

(***************************************************************************)
(* The state when the first agent of round 1 is about to be invoked: main() *)
(* has built the ToolExecutor and the empty stores, set the phase marker   *)
(* and seeded the queue.                                                   *)
(***************************************************************************)

Construct(aw) ==
    /\ now = 1
    /\ queue = SeedQueue
    /\ issued = 0
    /\ context_store = ("phase" :> IntVal(1)) @@ ("coord:queue" :> QueueVal)
    /\ context_versions = [k \in Keys |-> 0]
    /\ round = 1
    /\ rl_events = [k \in RateKeys |-> <<>>]
    /\ accepted = [k \in RateKeys |-> <<>>]
    /\ allow_write = aw
    /\ telemetry = [proposed |-> 0, applied |-> 0]
    /\ jobs = <<>>
    /\ tool_cache = <<>>
    /\ served = NoEntry
    /\ transcript = <<>>
    /\ history = <<>>
    /\ files = (<<"w", "a">> :> "old") @@ (<<"w2", "s">> :> "secret")
                   @@ (<<"etc", "passwd">> :> "users")
    /\ dirs = {<<>>, <<"w">>, <<"w2">>, <<"etc">>}
    /\ ioLog = NoCall
    /\ agent_state = [a \in Agents |-> [fail |-> 0, open_until |-> 0]]
    /\ round_outputs = [a \in Agents |-> ""]
    /\ turn = 1
    /\ pc = "check"
    /\ openedAt = [a \in Agents |-> <<>>]
    /\ consec = [a \in Agents |-> 0]
    /\ pending_writes = <<>>
    /\ final_consensus = [round |-> 0, text |-> ""]
    /\ approved = {}

\* --allow-write is off unless given
Init == Construct(FALSE)

(***************************************************************************)
(* The work queue under any sequence of coord_* calls by any agents at     *)
(* non-decreasing times.  Agents are invoked in a fixed order in every     *)
(* round, each may emit any number of calls in a turn, so over the rounds  *)
(* every interleaving of calls by different agents occurs.                 *)
(***************************************************************************)
NextQueue ==
    \/ Tick(MaxTime)
    \/ \E a \in Agents, kind \in Kinds : coord_enqueue(a, kind)
    \/ \E a \in Agents, l \in LeaseSecs : coord_next(a, l)
    \/ \E a \in Agents, tid \in Tids, l \in LeaseSecs : coord_claim(a, tid, l)
    \/ \E a \in Agents, tid \in Tids, res \in Results : coord_complete(a, tid, res)
    \/ \E a \in Agents, tid \in Tids, e \in LeaseSecs : coord_extend(a, tid, e)
    \/ \E a \in Agents : coord_status(a)

SpecQueue == Init /\ [][NextQueue]_vars


(***************************************************************************)
(* Claims on the work queue.                                               *)
(***************************************************************************)
\* agent a holds an unexpired lease on itm at time t
HeldBy(itm, a, t) ==
    /\ itm.status = "claimed"
    /\ itm.claimed_by = a
    /\ itm.lease_until # NoLease
    /\ t <= itm.lease_until[1]

\* C1: lease mutual exclusion.  In every reachable state, for an item held by
\* agent a with now <= lease-expiry and any other agent b: coord_next by b
\* neither hands out nor changes the item, coord_claim by b of any id neither
\* hands out nor changes it, and coord_claim of the item's own id answers
\* in_use (423) and leaves the whole queue as it was.
LeaseMutualExclusion ==
    \A i \in 1..Len(queue) : \A a \in Agents : \A b \in Agents \ {a} :
        HeldBy(queue[i], a, now) =>
            \A l \in LeaseSecs :
                /\ coord_next_queue(queue, b, l, now)[i] = queue[i]
                /\ coord_next_result(queue, b, l, now).idx # i
                /\ \A tid \in Tids :
                       /\ coord_claim_queue(queue, b, tid, l, now)[i] = queue[i]
                       /\ coord_claim_result(queue, b, tid, l, now).idx # i
                /\ queue[i].id # NoId =>
                       /\ coord_claim_result(queue, b, queue[i].id, l, now).err = "in_use"
                       /\ coord_claim_result(queue, b, queue[i].id, l, now).code = 423
                       /\ coord_claim_queue(queue, b, queue[i].id, l, now) = queue

\* C1 witness: at a later time than the start, Grok holds an enqueued item on the
\* last instant of its lease and Gemini's claim of it is refused.
LeaseMutualExclusionWitness ==
    \E i \in 1..Len(queue) :
        /\ queue[i].id # NoId
        /\ now > 1
        /\ HeldBy(queue[i], "Grok", now)
        /\ queue[i].lease_until = <<now>>
        /\ coord_claim_result(queue, "Gemini", queue[i].id, 1, now).err = "in_use"

\* C2: once coord_complete has succeeded for an item (its status is done), no
\* coord_next by any agent at any time hands that item out or changes its status.
DoneNeverReturnedByNext ==
    \A i \in 1..Len(queue) :
        queue[i].status = "done" =>
            \A a \in Agents, l \in LeaseSecs :
                /\ coord_next_result(queue, a, l, now).idx # i
                /\ coord_next_queue(queue, a, l, now)[i].status = "done"


(***************************************************************************)
(* The context store under any sequence of ctx_* calls by any agents, in   *)
(* any rounds.                                                             *)
(***************************************************************************)
NextCtx ==
    \/ BeginRound
    \/ \E a \in Agents, k \in Keys, v \in Values, mode \in Modes, expect \in Expects :
           ctx_put(a, k, v, mode, expect)
    \/ \E a \in Agents, k \in Keys : ctx_get(a, k)
    \/ \E a \in Agents, prefix \in Prefixes : ctx_keys(a, prefix)

SpecCtx == Init /\ [][NextCtx]_vars


(***************************************************************************)
(* Claims on the context store.                                            *)
(***************************************************************************)
\* C3: in every reachable state, for every key k, every integer expected version
\* n and every value v, ctx_put(k, v, if_version, n) succeeds iff n is the key's
\* current version (0 when the key was never put); when it succeeds the result
\* and the store carry version n + 1 and the store holds v under k.
IfVersionSucceedsIffCurrent ==
    \A k \in Keys, v \in Values, n \in 0..(MaxVersion + 2) :
        LET e == IntExpect(n)
            res == ctx_put_result(context_store, context_versions, k, v, "if_version", e)
            st == ctx_put_store(context_store, context_versions, k, v, "if_version", e)
            vs == ctx_put_versions(context_store, context_versions, k, v, "if_version", e)
        IN  /\ res.ok <=> n = context_versions[k]
            /\ res.ok => /\ res.version = n + 1
                         /\ vs[k] = n + 1
                         /\ k \in DOMAIN st
                         /\ st[k] = v

\* C3 witness: "plan" has been put twice and holds v1; a put expecting version 2
\* would succeed and one expecting version 1 would not.
IfVersionWitness ==
    /\ context_versions["plan"] = 2
    /\ "plan" \in DOMAIN context_store
    /\ context_store["plan"] = StrVal("v1")
    /\ ctx_put_result(context_store, context_versions, "plan", StrVal("v2"),
                      "if_version", IntExpect(2)).ok
    /\ ~ctx_put_result(context_store, context_versions, "plan", StrVal("v2"),
                       "if_version", IntExpect(1)).ok

\* C4: in every reachable state, a ctx_put that does not apply (if_version with an
\* integer other than the current version, or with no expected version; if_absent
\* on a key the store holds) answers ok = false with the key's current version and
\* leaves the store and all versions as they were.
FailedPutChangesNothing ==
    \A k \in Keys, v \in Values, mode \in {"if_version", "if_absent"}, e \in Expects :
        LET res == ctx_put_result(context_store, context_versions, k, v, mode, e)
            refused ==
                \/ mode = "if_version" /\ e.t = "int" /\ e.n # context_versions[k]
                \/ mode = "if_version" /\ e.t = "NoneType"
                \/ mode = "if_absent" /\ k \in DOMAIN context_store
        IN  refused =>
                /\ res.ok = FALSE
                /\ res.version = context_versions[k]
                /\ ctx_put_store(context_store, context_versions, k, v, mode, e)
                       = context_store
                /\ ctx_put_versions(context_store, context_versions, k, v, mode, e)
                       = context_versions

\* C4 witness: "plan" is at version 3; if_version expecting 5 answers
\* {ok: false, version: 3}, and if_absent is refused too.
FailedPutWitness ==
    /\ context_versions["plan"] = 3
    /\ "plan" \in DOMAIN context_store
    /\ LET res == ctx_put_result(context_store, context_versions, "plan", StrVal("v2"),
                                 "if_version", IntExpect(5))
       IN res.ok = FALSE /\ res.version = 3
    /\ ~ctx_put_result(context_store, context_versions, "plan", StrVal("v2"),
                       "if_absent", IntExpect(0)).ok

\* C5: every key's version starts at 0; in every step a version stays or grows by
\* exactly 1, and it grows only in a ctx_put of that key that answers ok with the
\* new version; ctx_get reports the version held.
VersionsStepByOne ==
    /\ \A k \in Keys : context_versions[k] = 0
    /\ [][\A k \in Keys :
            /\ context_versions'[k] \in {context_versions[k], context_versions[k] + 1}
            /\ ctx_get_result(context_store, context_versions, k).version
                   = context_versions[k]
            /\ context_versions'[k] # context_versions[k] =>
                   \E a \in Agents, v \in Values, mode \in Modes, e \in Expects :
                       /\ ctx_put(a, k, v, mode, e)
                       /\ ctx_put_result(context_store, context_versions, k, v, mode, e)
                              = [ok |-> TRUE, key |-> k,
                                 version |-> context_versions[k] + 1, error |-> ""]
         ]_vars

\* C5 witness: a key has gone through versions 0, 1, 2 while another is still at 0.
VersionsWitness ==
    /\ context_versions["plan"] = 2
    /\ context_versions["phase"] = 0
    /\ round = 2


(***************************************************************************)
(* The rate limiter under any sequence of checks at non-decreasing times.  *)
(***************************************************************************)
\* the checks made: two actors on one tool, one actor on two tools
RateCalls == {RateKey("fs_read", "Grok"), RateKey("fs_read", "Gemini"),
              RateKey("fs_stat", "Grok")}

NextRate ==
    \/ Tick(MaxRateTime)
    \/ \E key \in RateCalls : rate_check(key[1], key[2])

SpecRate == Init /\ [][NextRate]_vars

\* the admitted checks of `key` whose timestamp lies in (t - RlWindow, t]
AcceptedIn(key, t) ==
    {i \in DOMAIN accepted[key] : t - RlWindow < accepted[key][i] /\ accepted[key][i] <= t}

\* C6: for every key and every time t, at most RlMax admitted checks of the key
\* have their timestamp in the trailing window (t - RlWindow, t].
RateLimitBound ==
    \A key \in RateKeys : \A t \in 1..(MaxRateTime + RlWindow) :
        Cardinality(AcceptedIn(key, t)) <= RlMax

\* C6 witness: Grok's fs_read window was filled, aged out, and was filled again.
RateLimitBoundWitness ==
    LET key == RateKey("fs_read", "Grok") IN
    /\ Len(accepted[key]) = 2 * RlMax
    /\ Cardinality(AcceptedIn(key, now)) = RlMax
    /\ rate_check_result(rl_events, key, now).error = "rate_limited"

\* C7: in every reachable state, a check that is rejected leaves under its key
\* exactly the timestamps of the window that are unexpired (in their order, none
\* added), and leaves the window of every other key as it was.
RejectedCheckRecordsNothing ==
    \A key \in RateKeys :
        LET kept == SelectSeq(rl_events[key], LAMBDA e : now - e < RlWindow)
            after == rate_check_events(rl_events, key, now)
        IN  rate_check_result(rl_events, key, now).error = "rate_limited" =>
                /\ after[key] = kept
                /\ \A other \in RateKeys \ {key} : after[other] = rl_events[other]

\* C7 witness: Grok's fs_read window was filled, aged out and is full again, so
\* the next check is rejected, while Gemini's window is in use.
RejectedCheckWitness ==
    LET key == RateKey("fs_read", "Grok") IN
    /\ rate_check_result(rl_events, key, now).error = "rate_limited"
    /\ Len(rl_events[key]) = RlMax
    /\ Len(accepted[key]) > RlMax
    /\ rl_events[RateKey("fs_read", "Gemini")] # <<>>


(***************************************************************************)
(* The sandbox under any sequence of calls, with writes enabled or not.    *)
(* The tree holds the root /w with the file /w/a, its sibling /w2 with the *)
(* file /w2/s, and /etc/passwd.                                            *)
(***************************************************************************)
InitSandbox == \E aw \in BOOLEAN : Construct(aw)

NextSandbox ==
    \/ \E path \in PathArgs : read_file(path, "Grok")
    \/ \E path \in PathArgs : stat_file(path, "Grok")
    \/ \E dir \in PathArgs : list_files(dir, "Grok")
    \/ \E pattern \in Patterns, dir \in PathArgs : search_text(pattern, dir, "Grok")
    \/ \E path \in PathArgs, content \in Contents, cd \in BOOLEAN, ow \in BOOLEAN :
           write_file(path, content, cd, ow, "-")

SpecSandbox == InitSandbox /\ [][NextSandbox]_vars

\* C8: path confinement.  Whenever a sandbox call that the rate limiter admitted
\* was given a path that resolves outside the root's directory tree, the call
\* raised the path-escape error and touched nothing on the filesystem.
PathConfinement ==
    (ioLog.tool # "" /\ ioLog.res.error # "rate_limited" /\ ~Inside(Resolve(ioLog.arg)))
        => /\ ioLog.res.raised = PathEscape
           /\ ioLog.touched = {}


(***************************************************************************)
(* The round loop: every agent in turn is skipped or invoked, the arbiter  *)
(* follows, for MaxRounds rounds; the clock moves on at any point.         *)
(***************************************************************************)
NextBreaker ==
    \/ Tick(MaxBreakerTime)
    \/ BreakerSkip
    \/ Invoke
    \/ CallSucceeds
    \/ CallFails
    \/ ArbiterConsensus
    \/ ArbiterFails
    \/ pc = "next" /\ BeginRound
    \/ EndRun

SpecBreaker == Init /\ [][NextBreaker]_vars

\* the failure of agent a at time t that brought its count to the threshold (or
\* beyond) is less than CbCooldown ago
CoolingDown(a) == openedAt[a] # <<>> /\ now < openedAt[a][1] + CbCooldown

\* C9: at every breaker check of an agent a: if a's failures in a row reached the
\* threshold at a time t with now < t + CbCooldown, a is skipped (a.call is not
\* entered, the skip is recorded for the round, agent_state is unchanged);
\* otherwise, in particular once now >= t + CbCooldown, a is invoked.
BreakerCooldown ==
    [][\A a \in Agents :
          (pc = "check" /\ agents[turn] = a /\ now' = now) =>
              /\ CoolingDown(a) =>
                     /\ pc' # "calling"
                     /\ round_outputs'[a] = "skipped"
                     /\ agent_state' = agent_state
              /\ ~CoolingDown(a) =>
                     /\ pc' = "calling"
                     /\ round_outputs' = round_outputs
      ]_vars

\* C9 witness: Grok has been skipped in this round, and Gemini, whose breaker
\* opened CbCooldown or more ago, is being invoked again.
BreakerCooldownWitness ==
    /\ round_outputs["Grok"] = "skipped"
    /\ pc = "calling"
    /\ agents[turn] = "Gemini"
    /\ openedAt["Gemini"] # <<>>
    /\ now >= openedAt["Gemini"][1] + CbCooldown
    /\ agent_state["Gemini"].open_until = openedAt["Gemini"][1] + CbCooldown

\* C10: a step in which an agent's output is recorded leaves that agent with
\* fail = 0 and open_until = 0; the failure counter is the number of failures
\* since the agent's last success, and open_until is set only while that number
\* is at least CbThreshold.
SuccessResets ==
    /\ [][\A a \in Agents :
             (pc = "calling" /\ agents[turn] = a /\ round_outputs'[a] = "output") =>
                 agent_state'[a] = [fail |-> 0, open_until |-> 0]
         ]_vars
    /\ [](\A a \in Agents :
             /\ agent_state[a].fail = consec[a]
             /\ agent_state[a].open_until > 0 => consec[a] >= CbThreshold)

\* C10 witness: Gemini, whose breaker has been open, succeeded in this round
\* and its state is reset; Grok, with one failure since its last success, has
\* a closed breaker.
SuccessResetsWitness ==
    /\ openedAt["Gemini"] # <<>>
    /\ round_outputs["Gemini"] = "output"
    /\ agent_state["Gemini"] = [fail |-> 0, open_until |-> 0]
    /\ round_outputs["Grok"] = "error"
    /\ agent_state["Grok"] = [fail |-> 1, open_until |-> 0]

\* C31: post-cooldown trial.  At the breaker check of an agent whose breaker
\* has been opened and whose open_until is not after now, the agent is invoked;
\* when that call ends, a success leaves the breaker closed (fail = 0,
\* open_until = 0) and a failure opens it again at once, until the time of the
\* failure plus CbCooldown.
PostCooldownTrial ==
    [][\A a \in Agents :
          (agents[turn] = a /\ agent_state[a].open_until > 0) =>
              /\ (pc = "check" /\ now' = now /\ now >= agent_state[a].open_until)
                     => pc' = "calling" /\ agent_state' = agent_state
              /\ (pc = "calling" /\ pc' # "calling") =>
                     \/ /\ round_outputs'[a] = "output"
                        /\ agent_state'[a] = [fail |-> 0, open_until |-> 0]
                     \/ /\ round_outputs'[a] = "error"
                        /\ agent_state'[a].open_until = now + CbCooldown
                        /\ BreakerOpen(agent_state'[a], now)
      ]_vars

\* C31 witness: Grok failed CbThreshold times, was invoked again after the
\* cooldown, failed once more and its breaker is open again from that failure.
PostCooldownTrialWitness ==
    /\ consec["Grok"] = CbThreshold + 1
    /\ round_outputs["Grok"] = "error"
    /\ openedAt["Grok"] = <<now>>
    /\ now > CbCooldown
    /\ agent_state["Grok"] = [fail |-> CbThreshold + 1, open_until |-> now + CbCooldown]


(***************************************************************************)
(* Rounds in which every backend call returns: each agent is invoked and   *)
(* succeeds, its calls are validated and dispatched, the arbiter gives the *)
(* consensus and, when proposals are pending, its decisions.               *)
(***************************************************************************)
InitRound == \E aw \in BOOLEAN : Construct(aw)

NextRound ==
    \/ Invoke
    \/ CallSucceeds
    \/ \E a \in Agents, call \in RoundCalls : tool_call(a, call)
    \/ ArbiterConsensus
    \/ \E resp \in Responses : WriteReview(resp)
    \/ pc = "next" /\ BeginRound
    \/ EndRun

SpecRound == InitRound /\ [][NextRound]_vars

\* the files a step creates or rewrites
Changed == {p \in DOMAIN files' : p \notin DOMAIN files \/ files'[p] # files[p]}

\* C11: write approval protocol.  A step changes the filesystem only if it is the
\* end-of-round resolution, and then every file it changed is the target of a
\* proposal pending in that round whose path the arbiter's answer approves; in
\* particular the step that collects an fs_write proposal writes nothing.  A round
\* begins with no proposal pending, so no proposal outlives its round.
WriteApprovalProtocol ==
    [][/\ (files' # files \/ dirs' # dirs) =>
            /\ pc = "review"
            /\ \A p \in Changed :
                   \E i \in 1..Len(pending_writes) :
                       /\ Resolve(pending_writes[i].path) = p
                       /\ pending_writes[i].path \in approved'
       /\ Len(pending_writes') > Len(pending_writes) => files' = files /\ dirs' = dirs
       /\ round' # round => pending_writes = <<>> /\ pending_writes' = <<>>]_vars

\* an approved proposal for "a" has been written and the list is cleared
WriteApprovalWitness ==
    /\ pc = "next"
    /\ ioLog.tool = "fs_write" /\ ioLog.arg = RelPath(<<"a">>) /\ ioLog.res.data = "applied"
    /\ files[<<"w", "a">>] = "new"
    /\ pending_writes = <<>>

\* C12: no tool outcome of the error taxonomy aborts the round.  When the write
\* of an approved proposal ends in the path-escape outcome, the round still runs
\* to its end: the position is never "aborted" after such a write.
ToolOutcomeNeverAborts ==
    (ioLog.tool = "fs_write" /\ ioLog.res.raised = PathEscape) => pc # "aborted"

\* C13: a step in which the invocation of agent a fails appends exactly one
\* transcript entry, under a's name; it raises a's failure counter by exactly 1
\* and leaves the breaker state of every other agent alone; the loop moves on to
\* the next agent in the configured order (to the arbiter after the last one).
\* No agent is invoked twice in a round: an invocation begins only at the breaker
\* check of an agent for which the round has recorded nothing yet.
BackendFailureHandled ==
    [][/\ \A a \in Agents :
             (pc = "calling" /\ agents[turn] = a /\ round_outputs'[a] = "error") =>
                 /\ \A exc \in Exceptions :
                        /\ Len(failure_entries(a, exc)) = 1
                        /\ failure_entries(a, exc)[1].who = a
                 /\ agent_state'[a].fail = agent_state[a].fail + 1
                 /\ \A b \in Agents \ {a} : agent_state'[b] = agent_state[b]
                 /\ round' = round
                 /\ IF turn < Len(agents)
                    THEN pc' = "check" /\ turn' = turn + 1
                    ELSE pc' = "arbiter"
       /\ (pc' = "calling" /\ pc # "calling") =>
              pc = "check" /\ turn' = turn /\ round_outputs[agents[turn]] = ""
      ]_vars

\* Grok's invocation failed in this round and Gemini, which failed once in an
\* earlier round, is at its breaker check with its state untouched
BackendFailureWitness ==
    /\ round > 1
    /\ round_outputs["Grok"] = "error"
    /\ pc = "check" /\ agents[turn] = "Gemini"
    /\ agent_state["Grok"].fail = 1
    /\ agent_state["Gemini"] = [fail |-> 1, open_until |-> 0]

\* C14: a failure of the arbiter's backend does not abort the round or the run.
\* From the consensus call the loop goes on to the write review or to the next
\* round, whether the call returns or raises.
ArbiterFailureRecovered ==
    [][pc = "arbiter" => pc' \in {"arbiter", "review", "next"}]_vars

\* C15: coord_next by agent a at time now takes the first item, in insertion
\* order, whose status is queued, or claimed with now > lease-expiry; that item
\* becomes claimed by a with lease-expiry now + lease_sec, every other item is
\* unchanged, and the item is the one returned (items without an id, for which
\* the call then fails, are not asked to be returned).  When no item is of that
\* kind the call returns none and changes nothing.
NextTakesFirstEligible ==
    \A a \in Agents, l \in LeaseSecs :
        LET E == {i \in 1..Len(queue) :
                     \/ StatusOf(queue[i]) = "queued"
                     \/ queue[i].status = "claimed" /\ now > Exp(queue[i])}
            r == coord_next_result(queue, a, l, now)
            q2 == coord_next_queue(queue, a, l, now)
        IN
        IF E = {}
        THEN r = Result("", 0, NoId, 0) /\ q2 = queue
        ELSE LET i == CHOOSE i \in E : \A j \in E : i <= j IN
             /\ q2[i] = [queue[i] EXCEPT !.status = "claimed", !.lease_until = <<now + l>>,
                                         !.claimed_by = a]
             /\ \A j \in 1..Len(queue) : j # i => q2[j] = queue[j]
             /\ queue[i].id # NoId => r = Result("", 0, queue[i].id, i)

StatusCountsAfterNext ==
    LET n == issued
        with(s) == {i \in 1..Len(queue) : StatusOf(queue[i]) = s}
        entries == coord_status_entries(queue, context_store, None)
        status == entries[1].content
        count(s) == IF s \in DOMAIN status.counts THEN status.counts[s] ELSE 0
    IN
    (n >= 1 /\ Cardinality(with("claimed")) = 1 /\ with("done") = {}) =>
        /\ status.length = n
        /\ count("queued") = n - 1
        /\ count("claimed") = 1

\* C18: when the write resolution begins, every path that two or more pending
\* proposals carry is in the conflict list handed to the arbiter, and every
\* path in the list is carried by two or more proposals.
ConflictsListed ==
    pc = "review" =>
        LET carried(p) == {j \in 1..Len(pending_writes) : pending_writes[j].path = p} IN
        /\ \A i \in 1..Len(pending_writes) :
               Cardinality(carried(pending_writes[i].path)) >= 2
                   => pending_writes[i].path \in Conflicts(pending_writes)
        /\ \A p \in Conflicts(pending_writes) : Cardinality(carried(p)) >= 2

\* C19: a run whose backend calls all return leaves the round loop only after
\* round MaxRounds (args.rounds), with the consensus text of that round as the
\* result, whatever the consensus texts say; each round has one consensus call,
\* so the consensus kept is that of the current round once the arbiter has spoken.
RunsAllRounds ==
    /\ pc \in {"end", "aborted"} =>
           pc = "end" /\ round = MaxRounds /\ final_consensus.round = MaxRounds
    /\ pc \in {"review", "next"} => final_consensus.round = round

\* C20: while an agent's calls are dispatched, every tool of the schema, called
\* with its required arguments, passes the validator without an error tag and is
\* taken to a handler of the context store, the work queue or the sandbox (for
\* fs_write: the collection of the proposal).
SchemaToolsAccepted ==
    \A a \in Agents :
        Dispatching(a) =>
            \A c \in SchemaCalls :
                /\ Validated(c).error = ""
                /\ dispatch_target(Validated(c)) \in
                       {"ContextStore", "WorkQueue", "ToolSandbox", "WriteProposal"}

(***************************************************************************)
(* The agents' turns of one round: each agent is invoked and answers, and  *)
(* the calls of its output are validated and dispatched, up to the         *)
(* arbiter's consensus.                                                    *)
(***************************************************************************)
NextDispatch ==
    \/ Invoke
    \/ CallSucceeds
    \/ \E a \in Agents, call \in RoundCalls : tool_call(a, call)
    \/ ArbiterConsensus

SpecDispatch == InitRound /\ [][NextDispatch]_vars

UnparsedDecisionsAbsent ==
    [][(pc = "review" /\ approved' = {}) =>
           /\ pc' = "next"
           /\ pending_writes' = <<>>
           /\ files' = files /\ dirs' = dirs]_vars

(***************************************************************************)
(* The six sandbox operations behind the rate limiter: any sequence of     *)
(* calls by one actor, at one instant, on a path inside the root and on a  *)
(* path that escapes it.                                                   *)
(***************************************************************************)
GateArgs == {RelPath(<<"a">>), RelPath(<<"..", "..", "etc", "passwd">>)}

NextGate ==
    \/ \E path \in GateArgs : read_file(path, "Grok")
    \/ \E path \in GateArgs : stat_file(path, "Grok")
    \/ \E dir \in GateArgs : list_files(dir, "Grok")
    \/ \E dir \in GateArgs : search_text(".", dir, "Grok")
    \/ \E path \in GateArgs : write_file(path, "new", TRUE, TRUE, "Grok")
    \/ health_check("Grok")

SpecGate == InitSandbox /\ [][NextGate]_vars

\* C23: every call of a sandbox operation consults the limiter under the key of
\* its operation and actor.  When the limiter rejects (RlMax timestamps of the
\* key lie in the window), the call returns the rate-limit result, code 429 with
\* remaining and reset_sec, touches no path, leaves files and directories as
\* they were and admits nothing; otherwise the call is admitted under that key
\* and its result is not the rate-limit result.
RateLimitGate ==
    [][LET key == RateKey(ioLog'.tool, ioLog'.actor) IN
       /\ ioLog'.tool \in Tools
       /\ RateRejects(rl_events, key, now) =>
              /\ ioLog'.res = Returned("rate_limited", 429, "")
              /\ ioLog'.rl.code = 429
              /\ ioLog'.rl.remaining = 0
              /\ ioLog'.rl.reset_sec \in 0..RlWindow
              /\ ioLog'.touched = {}
              /\ files' = files /\ dirs' = dirs
              /\ accepted' = accepted
       /\ ~RateRejects(rl_events, key, now) =>
              /\ accepted' = [accepted EXCEPT ![key] = Append(@, now)]
              /\ ioLog'.rl = NoLimit
              /\ ioLog'.res.error # "rate_limited"
      ]_vars

\* with writes enabled, a write to "a" has been rejected by the limiter after
\* two admitted writes that raised, and the file is as it was
RateLimitGateWitness ==
    /\ allow_write
    /\ ioLog.tool = "fs_write" /\ ioLog.arg = RelPath(<<"a">>)
    /\ ioLog.res.error = "rate_limited"
    /\ Len(accepted[RateKey("fs_write", "Grok")]) = RlMax
    /\ files[<<"w", "a">>] = "old"

\* C24: in every state of the sandbox and for every write the limiter admits
\* (any path, either value of create_dirs and allow_overwrite): when writes are
\* not enabled, or allow_overwrite is false and the target exists, the write
\* fails and no file content and no directory changes, with writes_disabled
\* (423), respectively exists (409), as the result for a target inside the root;
\* and a write changes a file or answers "applied" only when writes are enabled
\* and the target is absent or allow_overwrite is true.
WriteGuards ==
    \A path \in PathArgs, content \in Contents, cd \in BOOLEAN, ow \in BOOLEAN :
        LET eff == write_file_effect(allow_write, files, dirs, path, content, cd, ow)
            p == Resolve(path)
            exists == p \in DOMAIN files \/ p \in dirs
            applied == eff.files # files \/ eff.res.data = "applied"
        IN
        /\ ~allow_write =>
               /\ eff.files = files /\ eff.dirs = dirs /\ ~applied
               /\ Inside(p) => eff.res = Returned("writes_disabled", 423, "")
        /\ (~ow /\ exists) =>
               /\ eff.files = files /\ eff.dirs = dirs /\ ~applied
               /\ (allow_write /\ Inside(p)) => eff.res = Returned("exists", 409, "")
        /\ applied => allow_write /\ (~exists \/ ow)

\* with writes enabled, "a" has been rewritten by an earlier write, and the last
\* call, a write to "a" that found it present, was refused with `exists`
WriteGuardsWitness ==
    /\ allow_write
    /\ files[<<"w", "a">>] = "new"
    /\ ioLog.tool = "fs_write" /\ ioLog.arg = RelPath(<<"a">>)
    /\ ioLog.res.error = "exists" /\ ioLog.res.code = 409

(***************************************************************************)
(* The scans under their caps: writes that add files below the root, and   *)
(* list and search calls with any cap and any deadline.                    *)
(***************************************************************************)
ScanDirs == {RelPath(<<>>), RelPath(<<"sub">>)}

NextScan ==
    \/ \E path \in {RelPath(<<"a">>), RelPath(<<"sub", "c">>)} :
           write_file(path, "new", TRUE, TRUE, "-")
    \/ \E dir \in ScanDirs, cap \in Caps, late \in LateAts :
           list_files_capped(dir, cap, late, "Grok")
    \/ \E pattern \in Patterns, dir \in ScanDirs, cap \in Caps, late \in LateAts :
           search_text_capped(pattern, dir, cap, late, "Grok")

SpecScan == InitSandbox /\ [][NextScan]_vars

\* C25: in every state of the sandbox, for every directory, every cap (0
\* included), every order of the walk and every instant at which the deadline
\* passes: list returns at most max_results files, and search at most
\* max_matches matches.
ResultCountCap ==
    \A dir \in ScanDirs, cap \in Caps, late \in LateAts :
        \A order \in Orders(Found(files, dirs, Resolve(dir))) :
            /\ Len(list_scan(order, <<>>, cap, late).items) <= cap
            /\ \A pattern \in Patterns :
                   Len(search_scan(files, pattern, order, 0, <<>>, cap, late).items) <= cap

\* C26: in every reachable state of the context store, for every key an agent
\* can name and every value: a put with mode set applies, and a put with mode
\* if_absent applies exactly when the key's version is 0 (no earlier put of the
\* key has succeeded).
PutModes ==
    \A k \in Keys, e \in Expects :
        /\ ctx_put_applies(context_store, context_versions, k, "set", e)
        /\ ctx_put_applies(context_store, context_versions, k, "if_absent", e)
               <=> CurVer(context_versions, k) = 0

\* C29: lease exclusivity against every operation.  In every reachable state,
\* for an item held by agent a with now <= lease-expiry and any other agent b:
\* coord_next, coord_claim, coord_extend and coord_complete issued by b, with
\* any arguments, leave the item's status, claimant, lease-expiry and result
\* as they are.
LeaseExclusivity ==
    \A i \in 1..Len(queue) : \A a \in Agents : \A b \in Agents \ {a} :
        HeldBy(queue[i], a, now) =>
            \A l \in LeaseSecs, tid \in Tids, res \in Results :
                /\ coord_next_queue(queue, b, l, now)[i] = queue[i]
                /\ coord_claim_queue(queue, b, tid, l, now)[i] = queue[i]
                /\ coord_extend_queue(queue, b, tid, l, now)[i] = queue[i]
                /\ coord_complete_queue(queue, tid, res)[i] = queue[i]

\* C30: work item life cycle.  In every step of the queue, an item either keeps
\* its status or goes queued -> claimed, claimed -> claimed or claimed -> done:
\* done is never left, and no item goes from queued to done.
ItemLifeCycle ==
    [][\A i \in 1..Len(queue) :
           \/ StatusOf(queue'[i]) = StatusOf(queue[i])
           \/ <<StatusOf(queue[i]), StatusOf(queue'[i])>>
                  \in {<<"queued", "claimed">>, <<"claimed", "done">>}]_vars


\* C32 as stated: coord_claim of an item by the agent that holds an unexpired
\* lease on it succeeds and leaves the item's lease-expiry as it was.
ReclaimKeepsLease ==
    \A i \in 1..Len(queue) : \A a \in Agents : \A l \in LeaseSecs :
        (HeldBy(queue[i], a, now) /\ queue[i].id # NoId) =>
            /\ coord_claim_result(queue, a, queue[i].id, l, now).err = ""
            /\ coord_claim_queue(queue, a, queue[i].id, l, now)[i].lease_until
                   = queue[i].lease_until

\* C32 amended: coord_claim of an item by the agent that holds an unexpired
\* lease on it succeeds and answers that item; the item stays claimed by that
\* agent and its lease-expiry becomes now + lease_sec, whatever it was before;
\* no other item changes.
ReclaimRenewsLease ==
    \A i \in 1..Len(queue) : \A a \in Agents : \A l \in LeaseSecs :
        (HeldBy(queue[i], a, now) /\ queue[i].id # NoId) =>
            LET after == coord_claim_queue(queue, a, queue[i].id, l, now)
                res == coord_claim_result(queue, a, queue[i].id, l, now)
            IN
            /\ res.err = "" /\ res.id = queue[i].id /\ res.idx = i
            /\ after[i].status = "claimed" /\ after[i].claimed_by = a
            /\ after[i].lease_until = <<now + l>>
            /\ after[i].result = queue[i].result
            /\ \A j \in 1..Len(queue) : j # i => after[j] = queue[j]

\* C32 witness: Grok holds an item on the last instant of its lease, and its
\* own claim of the item with lease_sec 1 moves the expiry to now + 1.
ReclaimRenewsLeaseWitness ==
    \E i \in 1..Len(queue) :
        /\ queue[i].id # NoId
        /\ HeldBy(queue[i], "Grok", now)
        /\ queue[i].lease_until = <<now>>
        /\ coord_claim_queue(queue, "Grok", queue[i].id, 1, now)[i].lease_until = <<now + 1>>


(***************************************************************************)
(* The jobs service of src/coordination/api.py: InMemoryJobs and the       *)
(* helpers submit_job, get_job, cancel_job.  `jobs` is the store in order  *)
(* of submission; the id of a job (uuid4().hex[:12], a token no earlier    *)
(* call returned) is its position.                                         *)
(***************************************************************************)
JobStatuses == {"queued", "running", "done", "error", "canceled"}
JobKinds == {"unit_test"}
JobIdArgs == 0..MaxJobs         \* 0: an id that is never issued ("nope")

\* Job(id=jid, kind=kind, payload=payload, status="queued")
Job(jid, kind) == [id |-> jid, kind |-> kind, status |-> "queued", result |-> None]

\* jid = uuid.uuid4().hex[:12]
NewJobId(store) == Len(store) + 1

\* InMemoryJobs.submit: the store afterwards
submit_store(store, kind) == Append(store, Job(NewJobId(store), kind))

\* submit_job: {"id": j.id, "status": j.status, "kind": j.kind}
submit_job_result(store, kind) ==
    LET j == submit_store(store, kind)[NewJobId(store)] IN
    [id |-> j.id, status |-> j.status, kind |-> j.kind]

\* {"error": "not_found"}
JobNotFound == [error |-> "not_found", id |-> 0, status |-> None, result |-> None]

\* get_job returning the status the job was created with
get_job_result_stale(store, jid) ==
    IF jid \notin DOMAIN store
    THEN JobNotFound
    ELSE [error |-> "", id |-> store[jid].id, status |-> "queued", result |-> store[jid].result]

\* get_job: {"id": j.id, "status": j.status, "result": j.result}
get_job_result(store, jid) ==
    IF jid \notin DOMAIN store
    THEN JobNotFound
    ELSE [error |-> "", id |-> store[jid].id, status |-> store[jid].status,
          result |-> store[jid].result]

\* cancel without the test of the terminal statuses
cancel_store_any(store, jid) ==
    IF jid \notin DOMAIN store
    THEN store
    ELSE [store EXCEPT ![jid].status = "canceled"]

\* InMemoryJobs.cancel: the store afterwards
cancel_store(store, jid) ==
    IF jid \notin DOMAIN store
    THEN store
    ELSE IF store[jid].status \in {"done", "error", "canceled"}
    THEN store
    ELSE [store EXCEPT ![jid].status = "canceled"]

\* cancel_job: {"id": j.id, "status": j.status}
cancel_job_result(store, jid) ==
    IF jid \notin DOMAIN store
    THEN JobNotFound
    ELSE [error |-> "", id |-> cancel_store(store, jid)[jid].id,
          status |-> cancel_store(store, jid)[jid].status, result |-> None]

JobsFrame ==
    UNCHANGED <<now, queueVars, ctxVars, round, rateVars, allow_write, telemetry, cacheVars, promptVars,
                files, dirs, ioLog,
                breakerVars, writeVars>>

submit_job(kind) ==
    /\ Len(jobs) < MaxJobs
    /\ jobs' = submit_store(jobs, kind)
    /\ JobsFrame

get_job(jid) ==
    /\ jobs' = jobs
    /\ JobsFrame

cancel_job(jid) ==
    /\ jobs' = cancel_store(jobs, jid)
    /\ JobsFrame

\* Whoever runs a job holds the Job object that submit or get returned and
\* assigns its status: queued -> running -> done | error.
JobProgress(jid, status) ==
    /\ jid \in DOMAIN jobs
    /\ \/ jobs[jid].status = "queued" /\ status = "running"
       \/ jobs[jid].status = "running" /\ status \in {"done", "error"}
    /\ jobs' = [jobs EXCEPT ![jid].status = status]
    /\ JobsFrame

NextJobs ==
    \/ \E kind \in JobKinds : submit_job(kind)
    \/ \E jid \in JobIdArgs : get_job(jid)
    \/ \E jid \in JobIdArgs : cancel_job(jid)
    \/ \E jid \in JobIdArgs, status \in JobStatuses : JobProgress(jid, status)

SpecJobs == Init /\ [][NextJobs]_vars

\* C27: in every reachable state of the jobs service and for every id:
\* cancel_job on a queued or running job makes it canceled and answers so; on a
\* done, error or canceled job it changes nothing and answers the status the
\* job has; on an unknown id it answers not_found and changes nothing; no other
\* job changes, and cancelling again changes nothing more.
JobCancellation ==
    \A jid \in JobIdArgs :
        LET after == cancel_store(jobs, jid)
            res == cancel_job_result(jobs, jid)
        IN
        /\ jid \notin DOMAIN jobs => res.error = "not_found" /\ after = jobs
        /\ jid \in DOMAIN jobs =>
               /\ res.error = "" /\ res.id = jid /\ res.status = after[jid].status
               /\ jobs[jid].status \in {"queued", "running"} =>
                      after = [jobs EXCEPT ![jid].status = "canceled"]
               /\ jobs[jid].status \in {"done", "error", "canceled"} => after = jobs
        /\ cancel_store(after, jid) = after

JobCancellationWitness ==
    \E i, j, k \in DOMAIN jobs :
        /\ jobs[i].status = "done" /\ jobs[j].status = "running" /\ jobs[k].status = "canceled"
        /\ cancel_store(jobs, j)[j].status = "canceled"
        /\ cancel_store(jobs, i)[i].status = "done"

\* C28: in every reachable state of the jobs service: submit_job answers an id
\* that no job has, with status queued, and adds that job without changing
\* any other; get_job of that id then answers the same id; get_job of any
\* stored id answers that id with the status the job has now; get_job of an id
\* never submitted answers not_found.
SubmitAndGet ==
    /\ \A kind \in JobKinds :
           LET after == submit_store(jobs, kind)
               res == submit_job_result(jobs, kind)
           IN
           /\ \A j \in DOMAIN jobs : jobs[j].id # res.id /\ after[j] = jobs[j]
           /\ res.status = "queued" /\ res.kind = kind
           /\ Len(after) = Len(jobs) + 1
           /\ get_job_result(after, res.id).id = res.id
           /\ get_job_result(after, res.id).status = "queued"
    /\ \A jid \in JobIdArgs :
           IF jid \in DOMAIN jobs
           THEN /\ get_job_result(jobs, jid).error = ""
                /\ get_job_result(jobs, jid).id = jid
                /\ get_job_result(jobs, jid).status = jobs[jid].status
           ELSE get_job_result(jobs, jid).error = "not_found"

SubmitAndGetWitness ==
    /\ Len(jobs) = 2
    /\ jobs[1].status = "canceled"
    /\ jobs[2].status = "running"
    /\ get_job_result(jobs, 2).status = "running"
    /\ get_job_result(jobs, 3).error = "not_found"

(***************************************************************************)
(* The cache of read-only tool calls in the dispatch loop of main(), with  *)
(* the sandbox behind it.  The calls are fs_read and fs_stat of a file     *)
(* under the root and of a path that escapes it, by any agent, within one  *)
(* rate window; approved writes of the file are applied in between.        *)
(***************************************************************************)
ReadOnlyTools == {"fs_list", "fs_read", "search_text", "fs_stat", "health_check"}

\* key = json.dumps({"tool": name, "args": args_map}, sort_keys=True) for a
\* read-only tool, else None
CacheKey(tool, arg) == IF tool \in ReadOnlyTools THEN <<tool, arg>> ELSE <<>>

\* if key and key in tool_cache
CacheHit(cache, tool, arg) == CacheKey(tool, arg) # <<>> /\ CacheKey(tool, arg) \in DOMAIN cache

\* what the operation behind a read-only call does once it is admitted
read_only_effect(tool, fs, ds, arg) ==
    IF tool = "fs_read" THEN read_file_effect(fs, ds, arg) ELSE stat_file_effect(fs, ds, arg)

\* res = tools.<operation>(..., actor=a.name): the 429 result of _rate_check,
\* or the operation's own outcome
sandbox_result(events, fs, ds, tool, actor, arg, t) ==
    LET rl == rate_check_result(events, RateKey(tool, actor), t) IN
    IF rl.error # "" THEN Returned(rl.error, rl.code, "")
    ELSE read_only_effect(tool, fs, ds, arg).res

\* if key: tool_cache[key] = res     (not reached when the operation raised)
tool_cache_store(cache, tool, arg, res) ==
    IF res.raised # "" \/ CacheKey(tool, arg) = <<>> THEN cache
    ELSE [k \in DOMAIN cache \cup {CacheKey(tool, arg)} |->
             IF k = CacheKey(tool, arg) THEN res ELSE cache[k]]

\* a dispatch that goes to the sandbox although the cache holds the call
read_only_call_uncached(a, tool, arg) ==
    LET res == sandbox_result(rl_events, files, dirs, tool, a, arg, now) IN
    /\ RateStep(tool, a)
    /\ SandboxStep(tool, a, arg, read_only_effect(tool, files, dirs, arg), files, dirs)
    /\ tool_cache' = tool_cache_store(tool_cache, tool, arg, res)
    /\ served' = [who |-> IF res.raised # "" THEN "ToolError" ELSE "Tool", tool |-> tool,
                  actor |-> a, arg |-> arg, res |-> res]
    /\ UNCHANGED <<now, queueVars, ctxVars, round, allow_write, telemetry, jobs, promptVars, breakerVars, writeVars>>

\* the dispatch of a read-only call of agent a: the cached result, or the
\* sandbox operation and the store of its result
read_only_call(a, tool, arg) ==
    IF CacheHit(tool_cache, tool, arg)
    THEN /\ served' = [who |-> "ToolCache", tool |-> tool, actor |-> a, arg |-> arg,
                       res |-> tool_cache[CacheKey(tool, arg)]]
         /\ UNCHANGED <<now, queueVars, ctxVars, round, rateVars, allow_write, telemetry, jobs, tool_cache, promptVars,
                        files, dirs, ioLog, breakerVars, writeVars>>
    ELSE LET res == sandbox_result(rl_events, files, dirs, tool, a, arg, now) IN
         /\ RateStep(tool, a)
         /\ SandboxStep(tool, a, arg, read_only_effect(tool, files, dirs, arg), files, dirs)
         /\ tool_cache' = tool_cache_store(tool_cache, tool, arg, res)
         /\ served' = [who |-> IF res.raised # "" THEN "ToolError" ELSE "Tool", tool |-> tool,
                       actor |-> a, arg |-> arg, res |-> res]
         /\ UNCHANGED <<now, queueVars, ctxVars, round, allow_write, telemetry, jobs, promptVars, breakerVars,
                        writeVars>>

\* tools.write_file(path=..., content=..., create_dirs=True, allow_overwrite=True)
\* for an approved proposal: no actor is passed
approved_write(path, content) ==
    LET eff == write_file_effect(allow_write, files, dirs, path, content, TRUE, TRUE) IN
    /\ RateStep("fs_write", "-")
    /\ SandboxStep("fs_write", "-", path, eff, eff.files, eff.dirs)
    /\ UNCHANGED <<now, queueVars, ctxVars, round, sideVars, breakerVars,
                   writeVars>>

CachedTools == {"fs_read", "fs_stat"}
CacheArgs == {RelPath(<<"a">>), RelPath(<<"..", "..", "etc", "passwd">>)}

NextCache ==
    \/ \E a \in Agents, tool \in CachedTools, arg \in CacheArgs : read_only_call(a, tool, arg)
    \/ \E path \in {RelPath(<<"a">>)}, content \in Contents : approved_write(path, content)

InitCache == Construct(TRUE)

SpecCache == InitCache /\ [][NextCache]_vars

\* C33: read-only call cache.  In every step that dispatches a read-only call
\* whose key already has a stored result, the call is answered from the cache
\* with exactly that result, and the rate windows, the record of the last
\* sandbox call, the files and the cache itself stay as they are; a step
\* changes no entry other than that of the call it dispatches; and every key
\* in the cache is that of a read-only tool.
ReadOnlyCallCache ==
    /\ [][served' # served =>
             LET key == CacheKey(served'.tool, served'.arg) IN
             /\ key \in DOMAIN tool_cache =>
                    /\ served'.who = "ToolCache"
                    /\ served'.res = tool_cache[key]
                    /\ UNCHANGED <<rl_events, accepted, ioLog, files, dirs, tool_cache>>
             /\ \A k \in DOMAIN tool_cache' :
                    k # key => k \in DOMAIN tool_cache /\ tool_cache'[k] = tool_cache[k]
         ]_vars
    /\ [](\A k \in DOMAIN tool_cache : k[1] \in ReadOnlyTools)

\* C33 witness: Grok's call went to the sandbox and its result was stored;
\* Gemini's identical call has been answered from the cache with that result,
\* while the entry of the other tool for the same path holds another result.
ReadOnlyCallCacheWitness ==
    /\ served.who = "ToolCache"
    /\ served.actor = "Gemini"
    /\ ioLog.actor = "Grok"
    /\ ioLog.tool = served.tool /\ ioLog.arg = served.arg
    /\ served.res = ioLog.res
    /\ served.tool = "fs_read"
    /\ CacheKey("fs_stat", served.arg) \in DOMAIN tool_cache
    /\ tool_cache[CacheKey("fs_stat", served.arg)] # served.res

\* C34: read-after-write visibility.  Every fs_read or fs_stat of the file a
\* that is answered without an error, also after approved writes of a have
\* been applied and whatever calls were made before them, is answered with
\* what the sandbox gives for the file as it is at the time of the call.
ReadAfterWrite ==
    [][(served' # served /\ served'.arg = RelPath(<<"a">>) /\ served'.res.raised = ""
            /\ served'.res.error = "") =>
           served'.res = read_only_effect(served'.tool, files, dirs, served'.arg).res
      ]_vars

\* C35: the cache holds no transient failure: no stored result carries the
\* error rate_limited (429) or timeout (408).
NoTransientFailureCached ==
    \A k \in DOMAIN tool_cache :
        tool_cache[k].error \notin {"rate_limited", "timeout"}
            /\ tool_cache[k].code \notin {429, 408}

(***************************************************************************)
(* round_prompt: the slice of the transcript that goes into a round's      *)
(* prompt.  An entry of the transcript is the length of its prompt line    *)
(* "[who] content\n"; the slice is given by the positions of its entries.  *)
(***************************************************************************)
HistoryChars == 3       \* 2500, scaled down
HistoryEntries == 3     \* the 6 of transcript[-6:], scaled down
LineSizes == {1, 3}     \* len(line)

\* transcript[-6:] starts here
HistoryStart(tr) == IF Len(tr) > HistoryEntries THEN Len(tr) - HistoryEntries + 1 ELSE 1

\* for turn in transcript[-6:]: history.append(line); acc += line;
\* if len(acc) > 2500: break
RECURSIVE history_loop(_, _, _, _)
history_loop(tr, i, hist, acc) ==
    IF i > Len(tr) THEN hist
    ELSE IF acc + tr[i] > HistoryChars THEN Append(hist, i)
    ELSE history_loop(tr, i + 1, Append(hist, i), acc + tr[i])

round_prompt_history(tr) == history_loop(tr, HistoryStart(tr), <<>>, 0)

PromptFrame ==
    UNCHANGED <<now, queueVars, ctxVars, round, rateVars, allow_write, telemetry, jobs, cacheVars,
                files, dirs, ioLog, breakerVars, writeVars>>

\* transcript.append({...})
transcript_append(size) ==
    /\ Len(transcript) < MaxTranscript
    /\ transcript' = Append(transcript, size)
    /\ history' = history
    /\ PromptFrame

\* rp = round_prompt(task, transcript, r)
round_prompt ==
    /\ history' = round_prompt_history(transcript)
    /\ transcript' = transcript
    /\ PromptFrame

NextPrompt ==
    \/ \E size \in LineSizes : transcript_append(size)
    \/ round_prompt

SpecPrompt == Init /\ [][NextPrompt]_vars

\* the accumulated length of the entries at the positions in hist
RECURSIVE SizeOf(_, _)
SizeOf(tr, hist) == IF hist = <<>> THEN 0 ELSE tr[Head(hist)] + SizeOf(tr, Tail(hist))

\* C36: for every transcript, the history of the prompt is a run of
\* consecutive entries that ends with the latest entry when the transcript is
\* not empty, and an older entry is left out only for size: the entries taken
\* together with the entry before them would exceed the size limit.
HistoryIsRecentSlice ==
    LET h == round_prompt_history(transcript) IN
    /\ \A i \in 1..(Len(h) - 1) : h[i + 1] = h[i] + 1
    /\ transcript # <<>> => h # <<>> /\ h[Len(h)] = Len(transcript)
    /\ (h # <<>> /\ h[1] > 1) => SizeOf(transcript, h) + transcript[h[1] - 1] > HistoryChars

(***************************************************************************)
(* The context store and the work queue together.  The queue is the list   *)
(* kept in the context store under "coord:queue": every coord_* branch     *)
(* starts with q = context_store.get("coord:queue") or [] and works on     *)
(* whatever value it finds there, and ctx_put accepts that key like any    *)
(* other.                                                                  *)
(***************************************************************************)
\* the store still holds the queue's list under "coord:queue"
QueueIsList(store) == "coord:queue" \in DOMAIN store /\ store["coord:queue"] = QueueVal

\* A coord_* branch on the shared store: on a string left there by ctx_put,
\* itm.get / q.append raise AttributeError before anything is changed, and the
\* handler at the end of the dispatch loop appends a ToolError entry.
coord_on_store(store, res) == IF QueueIsList(store) THEN res ELSE ToolError("AttributeError")

OnStore(branch) == IF QueueIsList(context_store) THEN branch ELSE UNCHANGED vars

\* the value ctx_get serialises for key k: the list itself for the queue
ctx_value(store, q, k) ==
    IF k \in DOMAIN store /\ store[k] = QueueVal THEN [list |-> q]
    ELSE ctx_get_result(store, [x \in Keys |-> 0], k).value

\* the calls of the runs checked here: puts on the queue's key and on another
\* key, enqueue and next on the queue, the start of a round
StoreKeys == {"coord:queue", "plan"}
NoExpect == [t |-> "NoneType", n |-> 0]

NextStore ==
    \/ BeginRound
    \/ \E a \in Agents, k \in StoreKeys : ctx_put(a, k, StrVal("v1"), "set", NoExpect)
    \/ \E a \in Agents, k \in Keys : ctx_get(a, k)
    \/ \E a \in Agents, kind \in Kinds : OnStore(coord_enqueue(a, kind))
    \/ \E a \in Agents : OnStore(coord_next(a, 1))

SpecStore == Init /\ [][NextStore]_vars

\* C37: the context store and the work queue do not interfere: no step takes
\* the queue's list out of the store (so no ctx_put can make a later coord_*
\* call fail or change the work items), and no step, of a coord_* call or of
\* the orchestrator's bookkeeping, changes the value ctx_get returns for a key
\* unless that key's version increases (so two ctx_get results with the same
\* version carry the same value).
ComponentIsolation ==
    [][/\ \A a \in Agents :
              coord_on_store(context_store, coord_enqueue_result(queue, "job", issued + 1)).who = "Tool"
                  => coord_on_store(context_store', coord_enqueue_result(queue', "job", issued' + 1)).who = "Tool"
       /\ QueueIsList(context_store) /\ QueueIsList(context_store')
              /\ context_versions' # context_versions => queue' = queue
       /\ \A k \in Keys :
              ctx_value(context_store', queue', k) # ctx_value(context_store, queue, k)
                  => CurVer(context_versions', k) > CurVer(context_versions, k)]_vars

\* the fields of the work items a failed call must leave alone
ItemStates(q) ==
    [i \in 1..Len(q) |-> <<q[i].status, q[i].lease_until, q[i].claimed_by, q[i].result>>]

\* an error result, or a ToolError entry written by the exception handler
EndsInError(res) == res.who = "ToolError" \/ res.err # ""

\* C38: a coord_next, coord_claim, coord_extend or coord_complete call that ends
\* in an error result or a ToolError entry leaves the status, lease expiry,
\* claimant and result of every work item unchanged, for every queue the run
\* can hold, the items seeded in round 1 included.
StateUnchangedOnError ==
    \A a \in Agents, tid \in Tids, l \in LeaseSecs, res \in Results :
        /\ EndsInError(coord_next_result(queue, a, l, now))
               => ItemStates(coord_next_queue(queue, a, l, now)) = ItemStates(queue)
        /\ EndsInError(coord_claim_result(queue, a, tid, l, now))
               => ItemStates(coord_claim_queue(queue, a, tid, l, now)) = ItemStates(queue)
        /\ EndsInError(coord_extend_result(queue, a, tid, l, now))
               => ItemStates(coord_extend_queue(queue, a, tid, l, now)) = ItemStates(queue)
        /\ EndsInError(coord_complete_result(queue, tid, res))
               => ItemStates(coord_complete_queue(queue, tid, res)) = ItemStates(queue)

\* the agents with a pending proposal for one of the paths a response approves
ProposersOf(pending, paths) ==
    {pending[i].by : i \in {j \in 1..Len(pending) : pending[j].path \in paths}}

\* C39: every sandbox call made for an agent, the application of its approved
\* write proposal included, is counted in the window of (operation, that agent)
\* and in no other: a step of the run changes the window of a key only when
\* the key's actor is the agent being dispatched or, in the write review, an
\* agent whose proposal was approved.
PerActorRateAccounting ==
    [][\A key \in RateKeys :
           (rl_events'[key] # rl_events[key] \/ accepted'[key] # accepted[key])
               => /\ key[2] \in Agents
                  /\ IF pc = "review"
                     THEN key[1] = "fs_write" /\ key[2] \in ProposersOf(pending_writes, approved')
                     ELSE Dispatching(key[2])]_vars

(***************************************************************************)
(* Write telemetry: telemetry["writes"], counted where a proposal is       *)
(* collected and where an approved write is applied.  The counters are     *)
(* followed by the two actions below; the rounds of SpecWrites are those   *)
(* of SpecRound with fs_write proposals as the only calls.                 *)
(***************************************************************************)
\* a write review that counts every approved proposal, applied or not
WriteApplied_any(st) == TRUE

\* if res.get("applied"): the write returned {"applied": True, ...}
WriteApplied(st) == st.raised = "" /\ st.log.res.error = "" /\ st.log.res.data = "applied"

\* what the decisions add to telemetry["writes"]["applied"]
RECURSIVE AppliedWrites(_, _, _, _, _)
AppliedWrites(decs, pending, st, aw, t) ==
    IF decs = <<>> \/ st.raised # "" THEN 0
    ELSE LET d == Head(decs)
             m == FirstMatch(pending, d.path)
         IN IF d.action # "approve" \/ m = 0
            THEN AppliedWrites(Tail(decs), pending, st, aw, t)
            ELSE LET st1 == ApplyWrite(st, aw, t, pending[m]) IN
                 (IF WriteApplied(st1) THEN 1 ELSE 0)
                     + AppliedWrites(Tail(decs), pending, st1, aw, t)

\* elif name == "fs_write": the proposal is counted and queued for the arbiter
fs_write_proposal(a, call) ==
    LET c == Validated(call) IN
    /\ Dispatching(a)
    /\ dispatch_target(c) = "WriteProposal"
    /\ Len(pending_writes) < MaxPending
    /\ telemetry' = [telemetry EXCEPT !.proposed = @ + 1]
    /\ pending_writes' = fs_write_pending(pending_writes, a, c.args)
    /\ UNCHANGED <<now, queueVars, ctxVars, round, rateVars, allow_write, jobs, cacheVars,
                   promptVars, files, dirs, ioLog, breakerVars, final_consensus, approved>>

\* if pending_writes: the decisions are applied and the applied writes counted
apply_approved_writes(resp) ==
    /\ pc = "review"
    /\ approved' = Approved(resp)
    /\ IF resp.kind \in {"unparsable", "no_list"}
       THEN /\ pending_writes' = <<>>
            /\ pc' = "next"
            /\ UNCHANGED <<rateVars, files, dirs, ioLog, telemetry>>
       ELSE IF resp.kind \in {"not_object", "bad_element"}
       THEN /\ pc' = "aborted"
            /\ UNCHANGED <<pending_writes, rateVars, files, dirs, ioLog, telemetry>>
       ELSE LET st == Resolution(resp)
                start == [files |-> files, dirs |-> dirs, events |-> rl_events,
                          accepted |-> accepted, raised |-> "", log |-> ioLog]
            IN
            /\ files' = st.files
            /\ dirs' = st.dirs
            /\ rl_events' = st.events
            /\ accepted' = st.accepted
            /\ ioLog' = st.log
            /\ telemetry' = [telemetry EXCEPT !.applied =
                                @ + AppliedWrites(resp.decisions, pending_writes, start,
                                                  allow_write, now)]
            /\ IF st.raised # ""
               THEN pc' = "aborted" /\ UNCHANGED pending_writes
               ELSE pc' = "next" /\ pending_writes' = <<>>
    /\ UNCHANGED <<now, queueVars, ctxVars, round, allow_write, jobs, cacheVars, promptVars,
                   agent_state, round_outputs, turn, openedAt, consec, final_consensus>>

\* a path inside the workspace and one that leaves it
WritePaths == {RelPath(<<"a">>), RelPath(<<"..", "..", "etc", "passwd">>)}
WriteCalls == {Call("fs_write", FsWriteArgs(p)) : p \in WritePaths}

\* the arbiter's answers: the malformed ones, and every list of approvals of
\* these paths, lists naming a path more than once included
WriteResponses ==
    {r \in Responses : r.kind \in Malformed}
        \cup {[kind |-> "decisions", decisions |-> ds] :
                  ds \in UNION {[1..n -> {[path |-> p, action |-> "approve"] : p \in WritePaths}] :
                                   n \in 0..MaxDecisions}}

NextWrites ==
    \/ Invoke
    \/ CallSucceeds
    \/ \E a \in Agents, call \in WriteCalls : fs_write_proposal(a, call)
    \/ ArbiterConsensus
    \/ \E resp \in WriteResponses : apply_approved_writes(resp)
    \/ pc = "next" /\ BeginRound
    \/ EndRun

SpecWrites == InitRound /\ [][NextWrites]_vars

\* C40 as stated: the write counters only grow and, in every reachable state,
\* writes.applied <= writes.proposed, whatever decision list the arbiter returns.
AppliedWithinProposed ==
    /\ [](telemetry.applied <= telemetry.proposed)
    /\ [][telemetry'.applied >= telemetry.applied
              /\ telemetry'.proposed >= telemetry.proposed]_vars

\* C40: the write counters only grow; writes.proposed rises by one with each
\* proposal collected and with nothing else; writes.applied rises only in a write
\* review, with writes enabled, in which a pending proposal whose path is approved
\* has been written.  (writes.applied is counted per approve decision, so it is
\* not bounded by writes.proposed.)
WriteCountersGrow ==
    [][/\ telemetry'.applied >= telemetry.applied
       /\ telemetry'.proposed >= telemetry.proposed
       /\ telemetry'.proposed # telemetry.proposed
              <=> /\ Len(pending_writes') = Len(pending_writes) + 1
                  /\ telemetry'.proposed = telemetry.proposed + 1
       /\ telemetry'.applied # telemetry.applied
              => /\ pc = "review"
                 /\ allow_write
                 /\ \E i \in 1..Len(pending_writes) :
                        /\ pending_writes[i].path \in approved'
                        /\ Resolve(pending_writes[i].path) \in DOMAIN files'
                        /\ files'[Resolve(pending_writes[i].path)] = pending_writes[i].content]_vars

WriteCountersGrowWitness == telemetry.proposed = 1 /\ telemetry.applied = 2

=============================================================================
